---- MODULE Spec2Model ----
(***************************************************************************)
(* Model of the agent dispatcher of the sandbox crate                      *)
(* (src/sandbox/src/agent_dispatcher.rs) and of the agent.history handler  *)
(* of the JSON-RPC transport (src/apps/api/src/main.rs).                   *)
(*                                                                         *)
(* A task id is a small positive integer (Uuid::new_v4 never repeats).     *)
(* Time is a logical clock `now`; Utc::now() reads it.  Option::None is    *)
(* NoTime for timestamps and "None" for outcome / error.  The immutable    *)
(* pass-through fields model, metadata and parameters of a task are not    *)
(* represented.                                                            *)
(***************************************************************************)
EXTENDS Integers, Sequences, FiniteSets, TLC

\* ------------------------------------------------------------------ bounds
MaxTasks == 3            \* tasks of a behaviour with concurrent workers
MaxActive == 2           \* workers running side by side
MaxFollowed == 1         \* tasks of a behaviour that follows one at a time
MaxClock == 1            \* the logical clock runs 0..MaxClock
CapacityKnob == 2        \* value handed to with_history_capacity
ContextLimit == 3        \* config.max_context_bytes, scaled down
MaxLimit == 2            \* largest limit of a direct history(limit) call
NumCallers == 2          \* concurrent cancel callers / status callers
MaxFileSize == 2         \* MAX_FILE_SIZE_BYTES of the filesystem module, scaled down
MaxWrites == 2           \* write_file calls of a behaviour
MaxOutput == 2           \* MAX_OUTPUT_BYTES of the process runner, scaled down
ChunkSize == 2           \* the 8192-byte chunk of read_stream, scaled down
DefaultTimeout == 1      \* DEFAULT_EXECUTION_TIMEOUT, in clock ticks
MaxElapsed == 2          \* ticks a behaviour follows a running child for
MaxRuns == 1             \* execute_with_config calls of a behaviour
MaxScripts == 1          \* run_code calls of a behaviour
MaxEnvPairs == 3         \* environment pairs of a run request
MaxVms == 2              \* start calls that draw an id
MaxInvokes == 2          \* wasm invocations a behaviour counts

\* ------------------------------------------------------- program constants
DefaultRpcLimit == 20
MaxRpcLimit == 256

NoTime == -1
NoId == 0                \* an id no dispatch ever returned

Max(a, b) == IF a >= b THEN a ELSE b
Min(a, b) == IF a <= b THEN a ELSE b

\* AgentDispatcherConfig::with_history_capacity
with_history_capacity(capacity) == Max(capacity, 1)

history_capacity == with_history_capacity(CapacityKnob)

\* the agents map of stub_dispatcher: only Code is registered
RegisteredAgents == {"code"}
AgentKinds == {"code", "test"}

\* ------------------------------------------------------------- pure helpers
\* AgentTaskStatus::is_terminal
is_terminal(status) == status \in {"Completed", "Failed", "Cancelled"}

IsSpace(c) == c = " "

RECURSIVE TrimStart(_)
TrimStart(s) ==
    IF s = <<>> THEN s
    ELSE IF IsSpace(Head(s)) THEN TrimStart(Tail(s)) ELSE s

RECURSIVE TrimEnd(_)
TrimEnd(s) ==
    IF s = <<>> THEN s
    ELSE IF IsSpace(s[Len(s)]) THEN TrimEnd(SubSeq(s, 1, Len(s) - 1)) ELSE s

\* str::trim
Trim(s) == TrimEnd(TrimStart(s))

\* AgentFileContent::bytes_len.  A Utf8 body is given by its byte length; a
\* Base64 body by its number of characters and of trailing '=' pads.  The
\* result is the decoded length, or -1 for a payload the decoder rejects.
bytes_len(content) ==
    IF content.encoding = "utf-8" THEN content.len
    ELSE IF content.len % 4 # 0 \/ content.pad > 2 \/ content.pad > content.len
         THEN -1
         ELSE 3 * (content.len \div 4) - content.pad

RECURSIVE SumNotes(_)
SumNotes(notes) ==
    IF notes = <<>> THEN 0 ELSE Head(notes) + SumNotes(Tail(notes))

RECURSIVE SumFiles(_)
SumFiles(files) ==
    IF files = <<>> THEN 0
    ELSE LET n == bytes_len(Head(files))
             rest == SumFiles(Tail(files))
         IN IF n < 0 \/ rest < 0 THEN -1 ELSE n + rest

\* AgentContext::total_bytes: note bytes plus decoded file bytes; -1 when a
\* base64 payload fails to decode (the `?` returns InvalidOperation).
total_bytes(context) ==
    LET f == SumFiles(context.files)
    IN IF f < 0 THEN -1 ELSE SumNotes(context.notes) + f

\* Mutant of Validate: the agent lookup ahead of the objective check.
ValidateMutOrder(request) ==
    IF request.agent \notin RegisteredAgents
    THEN [kind |-> "AgentUnavailable"]
    ELSE IF Trim(request.objective) = <<>>
    THEN [kind |-> "InvalidOperation"]
    ELSE IF total_bytes(request.context) < 0
    THEN [kind |-> "InvalidOperation"]
    ELSE IF total_bytes(request.context) > ContextLimit
    THEN [kind |-> "ContextTooLarge",
          provided |-> total_bytes(request.context), limit |-> ContextLimit]
    ELSE [kind |-> "Ok"]

\* The checks of dispatch before a task is created, in source order.
Validate(request) ==
    IF Trim(request.objective) = <<>>
    THEN [kind |-> "InvalidOperation"]
    ELSE IF request.agent \notin RegisteredAgents
    THEN [kind |-> "AgentUnavailable"]
    ELSE IF total_bytes(request.context) < 0
    THEN [kind |-> "InvalidOperation"]
    ELSE IF total_bytes(request.context) > ContextLimit
    THEN [kind |-> "ContextTooLarge",
          provided |-> total_bytes(request.context), limit |-> ContextLimit]
    ELSE [kind |-> "Ok"]

\* AgentTaskState::new
NewState(id, agent, objective, created) ==
    [id |-> id, agent |-> agent, objective |-> objective, status |-> "Pending",
     created_at |-> created, started_at |-> NoTime, finished_at |-> NoTime,
     outcome |-> "None", error |-> "None"]

\* AgentTaskState::snapshot: a field-by-field copy
snapshot(state) ==
    [id |-> state.id, agent |-> state.agent, objective |-> state.objective,
     status |-> state.status, created_at |-> state.created_at,
     started_at |-> state.started_at, finished_at |-> state.finished_at,
     outcome |-> state.outcome, error |-> state.error]

\* ------------------------------------------------------------------ inputs
Objectives == {<<>>, <<" ">>, <<"a">>, <<" ", "a", " ">>}

Utf8(n) == [encoding |-> "utf-8", len |-> n, pad |-> 0]
Base64(n, p) == [encoding |-> "base64", len |-> n, pad |-> p]

Contexts ==
    {[notes |-> ns, files |-> fs] :
        ns \in {<<>>, <<1>>, <<1, ContextLimit - 1>>},
        fs \in {<<>>, <<Utf8(1)>>, <<Base64(4, 2), Utf8(ContextLimit - 1)>>,
                <<Base64(3, 0)>>}}

Requests ==
    {[agent |-> a, objective |-> o, context |-> c] :
        a \in AgentKinds, o \in Objectives, c \in Contexts}

\* ------------------------------------------------------------------- state
VARIABLES
    tasks,      \* self.tasks: the ids in the active registry
    states,     \* id -> AgentTaskState (the Arc<Mutex<..>> of every task)
    tokens,     \* id -> whether the CancellationToken is cancelled
    history,    \* self.history: VecDeque of snapshots, front first
    workers,    \* id -> position and locals of the spawned worker
    inflight,   \* id -> request of a dispatch call that has not returned
    known,      \* ids some dispatch has returned to a caller
    cancels,    \* caller -> position and entry of a cancel call
    lookups,    \* caller -> position and id of a status call
    now,        \* the clock
    nextId,     \* the next fresh id
    ret,        \* what the step into this state returned to its caller
    forced,     \* ids whose status a cancel call forced to Cancelled
    log,        \* every snapshot appended to history, in the order of the appends
    disk,       \* the filesystem: absolute location -> directory or file
    writes,     \* number of write_file calls made so far
    run,        \* execute_with_config: position and locals of the call
    child,      \* the child process: its state and exit status
    descendant, \* a process the child forked, which inherits its pipes
    elapsed,    \* ticks since the child was spawned
    pipes,      \* stream -> bytes written and not yet read, bytes written
    readers,    \* stream -> state and buffer of the read_stream thread
    runs,       \* number of execute_with_config calls made so far
    micro,      \* run_code: position and locals of the call
    scripts,    \* number of run_code calls made so far
    instances,  \* self.instances: id -> MicroVm
    allocated,  \* number of ids start has drawn so far
    starter,    \* start: position and locals of the call
    stopper     \* stop: position and locals of the call

\* the state of the agent dispatcher, without the value just returned
dispatcherVars == <<tasks, states, tokens, history, workers, inflight, known,
                    cancels, lookups, now, nextId, forced, log>>

\* the state of the filesystem sandbox
fsVars == <<disk, writes>>

\* the state of the process runner
runVars == <<run, child, descendant, elapsed, pipes, readers, runs>>

\* the state of the micro-VM runner
vmVars == <<instances, allocated, starter, stopper>>

microVars == <<micro, scripts, vmVars>>

\* the state outside the agent dispatcher
sandboxVars == <<fsVars, runVars, microVars>>

vars == <<dispatcherVars, ret, sandboxVars>>

Callers == 1..NumCallers
Ids == 1..MaxTasks

NoSnapshot == [id |-> NoId]
NoRet == [op |-> "none"]
Idle == [pc |-> "idle", id |-> NoId]

DispatcherInit ==
    /\ tasks = {}
    /\ states = <<>>
    /\ tokens = <<>>
    /\ history = <<>>
    /\ workers = <<>>
    /\ inflight = <<>>
    /\ known = {}
    /\ cancels = [c \in Callers |-> Idle]
    /\ lookups = [c \in Callers |-> Idle]
    /\ now = 0
    /\ nextId = 1
    /\ ret = NoRet
    /\ forced = {}
    /\ log = <<>>

\* the filesystem before the workspace root exists; only "/" is there
NoDisk == <<>>

Streams == {"stdout", "stderr"}

\* no call of execute_with_config in progress
RunIdle == [pc |-> "idle"]

NoChild == [state |-> "none", status |-> "None"]

\* the process runner before its first call
RunnerInit ==
    /\ run = RunIdle
    /\ child = NoChild
    /\ descendant = "none"
    /\ elapsed = 0
    /\ pipes = [s \in Streams |-> [pending |-> <<>>, written |-> 0]]
    /\ readers = [s \in Streams |-> [state |-> "none", buf |-> <<>>]]
    /\ runs = 0

\* no instance registered
NoInstances == <<>>

\* no call of run_code in progress
MicroIdle == [pc |-> "idle"]

\* the micro-VM runner with no script running
MicroInit ==
    /\ micro = MicroIdle
    /\ scripts = 0
    /\ instances = NoInstances
    /\ allocated = 0
    /\ starter = MicroIdle
    /\ stopper = MicroIdle

Init ==
    /\ DispatcherInit
    /\ disk = NoDisk
    /\ writes = 0
    /\ RunnerInit
    /\ MicroInit

\* the clock advances between any two steps
Tick ==
    /\ now < MaxClock
    /\ now' = now + 1
    /\ ret' = NoRet
    /\ UNCHANGED <<sandboxVars, tasks, states, tokens, history, workers, inflight, known,
                   cancels, lookups, nextId, forced, log>>

\* ---------------------------------------------------------------- dispatch
\* the tasks whose worker has not yet appended to history
Unfinished == {id \in DOMAIN workers : workers[id].pc # "done"}

\* What the clients of a behaviour submit: a request that dispatch accepts
\* is sent only while fewer than `total` tasks were created and fewer than
\* `active` workers are unfinished.
Admit(request, total, active) ==
    Validate(request).kind = "Ok" =>
        nextId <= total /\ Cardinality(Unfinished) < active

\* AgentDispatcher::dispatch up to and including task::spawn.  A rejected
\* request returns its error at once; an accepted one registers the task and
\* schedules the worker, and the call is then about to take its snapshot.
Dispatch(request) ==
    LET v == Validate(request) IN
    IF v.kind # "Ok"
    THEN /\ ret' = [op |-> "dispatch", request |-> request, result |-> v]
         /\ UNCHANGED <<sandboxVars, tasks, states, tokens, history, workers, inflight,
                        known, cancels, lookups, now, nextId, forced, log>>
    ELSE /\ nextId <= MaxTasks
         /\ states' = states @@ (nextId :>
                NewState(nextId, request.agent, request.objective, now))
         /\ tokens' = tokens @@ (nextId :> FALSE)
         /\ tasks' = tasks \cup {nextId}
         /\ workers' = workers @@ (nextId :>
                [pc |-> "spawned", outcome |-> "None",
                 snapshot |-> NoSnapshot])
         /\ inflight' = inflight @@ (nextId :> request)
         /\ nextId' = nextId + 1
         /\ ret' = NoRet
         /\ UNCHANGED <<sandboxVars, history, known, cancels, lookups, now, forced, log>>

\* a client's call of dispatch
Submit(request, total, active) ==
    Admit(request, total, active) /\ Dispatch(request)

\* dispatch, `let snapshot = state.lock().snapshot()` and the return
DispatchReturn(id) ==
    /\ id \in DOMAIN inflight
    /\ ret' = [op |-> "dispatch", request |-> inflight[id],
               result |-> [kind |-> "Ok", id |-> id,
                           status |-> snapshot(states[id])]]
    /\ inflight' = [i \in DOMAIN inflight \ {id} |-> inflight[i]]
    /\ known' = known \cup {id}
    /\ UNCHANGED <<sandboxVars, tasks, states, tokens, history, workers, cancels, lookups,
                   now, nextId, forced, log>>

\* ------------------------------------------------------------------ worker
SetWorker(id, pc) == [workers EXCEPT ![id].pc = pc]

\* Mutant of Start: Running whatever the status was.
StartMutUnconditional(state, time) ==
    [state EXCEPT !.status = "Running", !.started_at = time]

\* Mutant of Start: the worker never marks the task Running.
StartMutSkip(state, time) == state

\* the state after the first block of the spawned task
Start(state, time) ==
    IF state.status = "Pending"
    THEN [state EXCEPT !.status = "Running", !.started_at = time]
    ELSE state

\* the first block of the spawned task, under the state lock
WorkerStart(id) ==
    /\ id \in DOMAIN workers
    /\ workers[id].pc = "spawned"
    /\ states' = [states EXCEPT ![id] = Start(states[id], now)]
    /\ workers' = SetWorker(id, "execute")
    /\ ret' = NoRet
    /\ UNCHANGED <<sandboxVars, tasks, tokens, history, inflight, known, cancels, lookups,
                   now, nextId, forced, log>>

\* Agent::execute up to the request: the first is_cancelled check
ExecuteBegin(id) ==
    /\ id \in DOMAIN workers
    /\ workers[id].pc = "execute"
    /\ workers' = IF tokens[id]
                  THEN [workers EXCEPT ![id].pc = "finalize",
                                       ![id].outcome = "ErrCancelled"]
                  ELSE SetWorker(id, "request")
    /\ ret' = NoRet
    /\ UNCHANGED <<sandboxVars, tasks, states, tokens, history, inflight, known, cancels,
                   lookups, now, nextId, forced, log>>

\* What execute returns once the chat request has come back: a failed
\* request is returned by `?`; otherwise the second is_cancelled check
\* decides between Cancelled and an outcome.
ExecuteResult(response, cancelled) ==
    IF response = "error" THEN "ErrOther"
    ELSE IF cancelled THEN "ErrCancelled"
    ELSE "Ok"

\* Agent::execute from the reply of the LLM endpoint to its return
ExecuteEnd(id, response) ==
    /\ id \in DOMAIN workers
    /\ workers[id].pc = "request"
    /\ workers' = [workers EXCEPT
            ![id].pc = "finalize",
            ![id].outcome = ExecuteResult(response, tokens[id])]
    /\ ret' = NoRet
    /\ UNCHANGED <<sandboxVars, tasks, states, tokens, history, inflight, known, cancels,
                   lookups, now, nextId, forced, log>>

\* Mutant of Finalize: no test for a status that is already Cancelled.
FinalizeMutOverwrite(state, outcome, time) ==
    IF outcome = "Ok"
    THEN [state EXCEPT !.status = "Completed", !.finished_at = time,
                       !.outcome = "Some"]
    ELSE IF outcome = "ErrCancelled"
    THEN [state EXCEPT !.status = "Cancelled", !.finished_at = time]
    ELSE [state EXCEPT !.status = "Failed", !.finished_at = time,
                       !.error = "Some"]

\* Mutant of Finalize: a Cancelled task gets the time of the finalization
\* as its finished_at.
FinalizeMutRestamp(state, outcome, time) ==
    IF state.status = "Cancelled" THEN [state EXCEPT !.finished_at = time]
    ELSE IF outcome = "Ok"
    THEN [state EXCEPT !.status = "Completed", !.finished_at = time,
                       !.outcome = "Some"]
    ELSE IF outcome = "ErrCancelled"
    THEN [state EXCEPT !.status = "Cancelled", !.finished_at = time]
    ELSE [state EXCEPT !.status = "Failed", !.finished_at = time,
                       !.error = "Some"]

\* Mutant of Finalize: the result of execute is stored before the status is
\* looked at, so a Cancelled task keeps the outcome the agent returned.
FinalizeMutStoreOutcome(state, outcome, time) ==
    LET stored == IF outcome = "Ok" THEN [state EXCEPT !.outcome = "Some"]
                  ELSE state IN
    IF state.status = "Cancelled"
    THEN [stored EXCEPT !.finished_at =
              IF state.finished_at = NoTime THEN time ELSE state.finished_at]
    ELSE IF outcome = "Ok"
    THEN [stored EXCEPT !.status = "Completed", !.finished_at = time]
    ELSE IF outcome = "ErrCancelled"
    THEN [state EXCEPT !.status = "Cancelled", !.finished_at = time]
    ELSE [state EXCEPT !.status = "Failed", !.finished_at = time,
                       !.error = "Some"]

\* the state after the worker's finalization block, under the state lock
Finalize(state, outcome, time) ==
    IF state.status = "Cancelled"
    THEN [state EXCEPT !.finished_at =
              IF state.finished_at = NoTime THEN time ELSE state.finished_at]
    ELSE IF outcome = "Ok"
    THEN [state EXCEPT !.status = "Completed", !.finished_at = time,
                       !.outcome = "Some"]
    ELSE IF outcome = "ErrCancelled"
    THEN [state EXCEPT !.status = "Cancelled", !.finished_at = time]
    ELSE [state EXCEPT !.status = "Failed", !.finished_at = time,
                       !.error = "Some"]

\* Mutant of WorkerFinalize: a worker that finds the task Cancelled returns
\* at once, without the hand-over to history.
WorkerFinalizeMutEarlyReturn(id) ==
    /\ id \in DOMAIN workers
    /\ workers[id].pc = "finalize"
    /\ LET final == Finalize(states[id], workers[id].outcome, now) IN
        /\ states' = [states EXCEPT ![id] = final]
        /\ workers' = IF states[id].status = "Cancelled"
                      THEN [workers EXCEPT ![id] =
                               [pc |-> "done", outcome |-> "None",
                                snapshot |-> NoSnapshot]]
                      ELSE [workers EXCEPT ![id].pc = "remove",
                                           ![id].snapshot = snapshot(final)]
    /\ ret' = NoRet
    /\ UNCHANGED <<sandboxVars, tasks, tokens, history, inflight, known, cancels, lookups,
                   now, nextId, forced, log>>

\* the worker's finalization block and its snapshot of the final state
WorkerFinalize(id) ==
    /\ id \in DOMAIN workers
    /\ workers[id].pc = "finalize"
    /\ LET final == Finalize(states[id], workers[id].outcome, now) IN
        /\ states' = [states EXCEPT ![id] = final]
        /\ workers' = [workers EXCEPT ![id].pc = "remove",
                                      ![id].snapshot = snapshot(final)]
    /\ ret' = NoRet
    /\ UNCHANGED <<sandboxVars, tasks, tokens, history, inflight, known, cancels, lookups,
                   now, nextId, forced, log>>

\* Mutant of WorkerRemove: the entry stays in the active registry.
WorkerRemoveMutKeep(id) ==
    /\ id \in DOMAIN workers
    /\ workers[id].pc = "remove"
    /\ workers' = SetWorker(id, "push")
    /\ ret' = NoRet
    /\ UNCHANGED <<sandboxVars, tasks, states, tokens, history, inflight, known, cancels,
                   lookups, now, nextId, forced, log>>

\* tasks_guard.remove(&snapshot.id)
WorkerRemove(id) ==
    /\ id \in DOMAIN workers
    /\ workers[id].pc = "remove"
    /\ tasks' = tasks \ {workers[id].snapshot.id}
    /\ workers' = SetWorker(id, "push")
    /\ ret' = NoRet
    /\ UNCHANGED <<sandboxVars, states, tokens, history, inflight, known, cancels, lookups,
                   now, nextId, forced, log>>

\* Mutant of Evict: the newest entry is dropped, not the oldest.
RECURSIVE EvictMutPopBack(_, _)
EvictMutPopBack(h, capacity) ==
    IF Len(h) > capacity
    THEN EvictMutPopBack(SubSeq(h, 1, Len(h) - 1), capacity)
    ELSE h

\* while history_guard.len() > history_capacity { pop_front() }
RECURSIVE Evict(_, _)
Evict(h, capacity) ==
    IF Len(h) > capacity THEN Evict(Tail(h), capacity) ELSE h

\* push_back followed by the eviction loop, under the history lock
PushHistory(h, snap, capacity) == Evict(Append(h, snap), capacity)

\* a worker that has run to its end; its locals are dropped
Done == [pc |-> "done", outcome |-> "None", snapshot |-> NoSnapshot]

WorkerPush(id) ==
    /\ id \in DOMAIN workers
    /\ workers[id].pc = "push"
    /\ history' = PushHistory(history, workers[id].snapshot, history_capacity)
    /\ workers' = [workers EXCEPT ![id] = Done]
    /\ log' = Append(log, workers[id].snapshot)
    /\ ret' = NoRet
    /\ UNCHANGED <<sandboxVars, tasks, states, tokens, inflight, known, cancels, lookups,
                   now, nextId, forced>>

\* ------------------------------------------------------------------ cancel
\* ids a caller can name: those a dispatch returned, or one never issued
CallableIds == known \cup {NoId}

\* cancel: the lookup in self.tasks; a miss returns AgentTaskNotFound
CancelLookup(c, id) ==
    /\ cancels[c].pc = "idle"
    /\ id \in CallableIds
    /\ IF id \in tasks
       THEN /\ cancels' = [cancels EXCEPT ![c] = [pc |-> "fire", id |-> id]]
            /\ ret' = NoRet
       ELSE /\ ret' = [op |-> "cancel", id |-> id,
                       result |-> [kind |-> "AgentTaskNotFound"]]
            /\ UNCHANGED cancels
    /\ UNCHANGED <<sandboxVars, tasks, states, tokens, history, workers, inflight, known,
                   lookups, now, nextId, forced, log>>

\* cancel: entry.cancellation.cancel()
CancelFire(c) ==
    /\ cancels[c].pc = "fire"
    /\ tokens' = [tokens EXCEPT ![cancels[c].id] = TRUE]
    /\ cancels' = [cancels EXCEPT ![c].pc = "lock"]
    /\ ret' = NoRet
    /\ UNCHANGED <<sandboxVars, tasks, states, history, workers, inflight, known, lookups,
                   now, nextId, forced, log>>

\* Mutant of CancelState: no early return for a terminal status.
CancelStateMutForce(state, time) ==
    [state EXCEPT !.status = "Cancelled", !.finished_at = time]

\* the state after the locked block of cancel
CancelState(state, time) ==
    IF is_terminal(state.status) THEN state
    ELSE [state EXCEPT !.status = "Cancelled", !.finished_at = time]

\* cancel: the block under the state lock, and the return
CancelLock(c) ==
    /\ cancels[c].pc = "lock"
    /\ LET id == cancels[c].id
           after == CancelState(states[id], now)
       IN /\ states' = [states EXCEPT ![id] = after]
          /\ forced' = IF is_terminal(states[id].status) THEN forced
                       ELSE forced \cup {id}
          /\ ret' = [op |-> "cancel", id |-> id,
                     result |-> [kind |-> "Ok", status |-> snapshot(after)]]
    /\ cancels' = [cancels EXCEPT ![c] = Idle]
    /\ UNCHANGED <<sandboxVars, tasks, tokens, history, workers, inflight, known, lookups,
                   now, nextId, log>>

\* ------------------------------------------------------------------ status
\* status: the lookup in self.tasks; a hit snapshots the live state while
\* the registry lock is still held
StatusActive(c, id) ==
    /\ lookups[c].pc = "idle"
    /\ id \in CallableIds
    /\ IF id \in tasks
       THEN /\ ret' = [op |-> "status", id |-> id,
                       result |-> [kind |-> "Some",
                                   status |-> snapshot(states[id])]]
            /\ UNCHANGED lookups
       ELSE /\ lookups' = [lookups EXCEPT ![c] = [pc |-> "history", id |-> id]]
            /\ ret' = NoRet
    /\ UNCHANGED <<sandboxVars, tasks, states, tokens, history, workers, inflight, known,
                   cancels, now, nextId, forced, log>>

\* iter().rev().find(|snapshot| &snapshot.id == id)
FindNewest(h, id) ==
    LET hits == {i \in 1..Len(h) : h[i].id = id} IN
    IF hits = {} THEN [kind |-> "None"]
    ELSE [kind |-> "Some",
          status |-> h[CHOOSE i \in hits : \A j \in hits : j <= i]]

\* status: the search of self.history after a miss in self.tasks
StatusHistory(c) ==
    /\ lookups[c].pc = "history"
    /\ ret' = [op |-> "status", id |-> lookups[c].id,
               result |-> FindNewest(history, lookups[c].id)]
    /\ lookups' = [lookups EXCEPT ![c] = Idle]
    /\ UNCHANGED <<sandboxVars, tasks, states, tokens, history, workers, inflight, known,
                   cancels, now, nextId, forced, log>>

\* ----------------------------------------------------------------- history
Reverse(s) == [i \in 1..Len(s) |-> s[Len(s) + 1 - i]]

Take(s, n) == SubSeq(s, 1, Min(n, Len(s)))

\* Mutant of History: the limit is ignored.
HistoryMutNoTake(h, limit) == Reverse(h)

\* Mutant of History: oldest first.
HistoryMutNoRev(h, limit) == Take(h, limit)

\* AgentDispatcher::history: guard.iter().rev().take(limit)
History(h, limit) == Take(Reverse(h), limit)

\* a direct call of history(limit)
HistoryCall(limit) ==
    /\ ret' = [op |-> "history", limit |-> limit,
               result |-> History(history, limit)]
    /\ UNCHANGED <<sandboxVars, tasks, states, tokens, history, workers, inflight, known,
                   cancels, lookups, now, nextId, forced, log>>

\* an absent params.limit
NoLimit == -1

\* process_request, "agent.history": the limit handed to history()
ClampLimit(param) ==
    LET limit == IF param = NoLimit THEN DefaultRpcLimit ELSE param IN
    IF limit = 0 THEN 1
    ELSE IF limit > MaxRpcLimit THEN MaxRpcLimit
    ELSE limit

RpcLimits == {NoLimit, 0, 1, MaxRpcLimit + 1}

\* process_request, "agent.history"
RpcHistory(param) ==
    /\ ret' = [op |-> "agent.history", param |-> param,
               limit |-> ClampLimit(param),
               result |-> History(history, ClampLimit(param))]
    /\ UNCHANGED <<sandboxVars, tasks, states, tokens, history, workers, inflight, known,
                   cancels, lookups, now, nextId, forced, log>>

\* -------------------------------------------------------------------- spec
Responses == {"ok", "error"}

Worker(id) ==
    \/ WorkerStart(id)
    \/ ExecuteBegin(id)
    \/ \E response \in Responses : ExecuteEnd(id, response)
    \/ WorkerFinalize(id)
    \/ WorkerRemove(id)
    \/ WorkerPush(id)

\* the requests of the concurrency models: one accepted, one rejected
CoreRequests ==
    {[agent |-> "code", objective |-> o,
      context |-> [notes |-> <<>>, files |-> <<>>]] : o \in {<<" ">>, <<"a">>}}

\* One task at a time, followed through every interleaving of its worker
\* with the clock and with cancel, status and history calls.
Next ==
    \/ Tick
    \/ \E request \in CoreRequests : Submit(request, MaxFollowed, 1)
    \/ \E id \in Ids : DispatchReturn(id)
    \/ \E id \in Ids : Worker(id)
    \/ \E c \in Callers, id \in Ids \cup {NoId} : CancelLookup(c, id)
    \/ \E c \in Callers : CancelFire(c)
    \/ \E c \in Callers : CancelLock(c)
    \/ \E c \in Callers, id \in Ids \cup {NoId} : StatusActive(c, id)
    \/ \E c \in Callers : StatusHistory(c)
    \/ \E limit \in 0..MaxLimit : HistoryCall(limit)
    \/ \E param \in RpcLimits : RpcHistory(param)

Spec == Init /\ [][Next]_vars

\* Up to MaxActive workers side by side, with status and history calls.
ConcurrentNext ==
    \/ \E request \in CoreRequests : Submit(request, MaxTasks, MaxActive)
    \/ \E id \in Ids : DispatchReturn(id)
    \/ \E id \in Ids : Worker(id)
    \/ \E c \in Callers, id \in Ids \cup {NoId} : StatusActive(c, id)
    \/ \E c \in Callers : StatusHistory(c)
    \/ \E limit \in 0..MaxLimit : HistoryCall(limit)
    \/ \E param \in RpcLimits : RpcHistory(param)

ConcurrentSpec == Init /\ [][ConcurrentNext]_vars

\* Every request of Requests handed to dispatch, one task at a time.
DispatchNext ==
    \/ \E request \in Requests : Submit(request, MaxFollowed, 1)
    \/ \E id \in Ids : DispatchReturn(id)
    \/ \E id \in Ids : Worker(id)

DispatchSpec == Init /\ [][DispatchNext]_vars

\* The tokio runtime polls every spawned task until it completes, and the
\* chat request ends by its reply or by the client timeout.
FairSpec == Spec /\ \A id \in Ids : WF_vars(Worker(id))

\* -------------------------------------------------------------------- utf-8
\* a continuation byte
Cont(b) == b \in 128..191

\* the length of the sequence a lead byte announces; 0 for a byte that
\* cannot start a sequence
Utf8Width(b) ==
    IF b < 128 THEN 1
    ELSE IF b \in 194..223 THEN 2
    ELSE IF b \in 224..239 THEN 3
    ELSE IF b \in 240..244 THEN 4
    ELSE 0

\* the second byte of a sequence: the ranges that exclude overlong forms,
\* surrogates and code points above U+10FFFF
SecondOk(b0, b1) ==
    IF b0 = 224 THEN b1 \in 160..191
    ELSE IF b0 = 237 THEN b1 \in 128..159
    ELSE IF b0 = 240 THEN b1 \in 144..191
    ELSE IF b0 = 244 THEN b1 \in 128..143
    ELSE Cont(b1)

\* The first chunk of a non-empty byte string as the decoder of the standard
\* library sees it: a valid character, or the longest prefix of one that the
\* next byte breaks.
Utf8Chunk(s) ==
    LET w == Utf8Width(s[1]) IN
    IF w = 0 THEN [valid |-> FALSE, len |-> 1]
    ELSE IF w = 1 THEN [valid |-> TRUE, len |-> 1]
    ELSE IF Len(s) < 2 \/ ~SecondOk(s[1], s[2]) THEN [valid |-> FALSE, len |-> 1]
    ELSE IF w = 2 THEN [valid |-> TRUE, len |-> 2]
    ELSE IF Len(s) < 3 \/ ~Cont(s[3]) THEN [valid |-> FALSE, len |-> 2]
    ELSE IF w = 3 THEN [valid |-> TRUE, len |-> 3]
    ELSE IF Len(s) < 4 \/ ~Cont(s[4]) THEN [valid |-> FALSE, len |-> 3]
    ELSE [valid |-> TRUE, len |-> 4]

\* whether a byte string is valid UTF-8 (String::from_utf8 succeeds)
RECURSIVE is_utf8(_)
is_utf8(s) ==
    IF s = <<>> THEN TRUE
    ELSE LET c == Utf8Chunk(s) IN
         c.valid /\ is_utf8(SubSeq(s, c.len + 1, Len(s)))

\* ---------------------------------------------------------------- paths
\* A path as its text: whether it starts with "/", and its segments.
PathOf(rooted, segs) == [rooted |-> rooted, segs |-> segs]

\* Path::components: RootDir for a leading "/", CurDir only for a leading
\* "." of a relative path (other "." segments are skipped), ParentDir for
\* "..", and the normal segments by name.
components(path) ==
    LET kept == SelectSeq(
                    [i \in 1..Len(path.segs) |->
                        IF path.segs[i] = "."
                        THEN IF i = 1 /\ ~path.rooted THEN "CurDir" ELSE "Skip"
                        ELSE IF path.segs[i] = ".." THEN "ParentDir"
                        ELSE path.segs[i]],
                    LAMBDA c : c # "Skip")
    IN (IF path.rooted THEN <<"RootDir">> ELSE <<>>) \o kept

\* the workspace root, as the names from "/" down
WorkspaceRoot == <<"ws">>

\* Path::starts_with over locations
StartsWith(loc, base) ==
    Len(loc) >= Len(base) /\ SubSeq(loc, 1, Len(base)) = base

\* the location a sequence of names and ".." under "/" denotes
RECURSIVE Physical(_)
Physical(loc) ==
    IF loc = <<>> THEN <<>>
    ELSE LET up == Physical(SubSeq(loc, 1, Len(loc) - 1)) IN
         IF loc[Len(loc)] = ".."
         THEN IF up = <<>> THEN <<>> ELSE SubSeq(up, 1, Len(up) - 1)
         ELSE Append(up, loc[Len(loc)])

\* path::resolve, the component loop: the cleaned path or the error
RECURSIVE ResolveLoop(_, _)
ResolveLoop(comps, clean) ==
    IF comps = <<>> THEN [kind |-> "Ok", path |-> clean]
    ELSE IF Head(comps) = "CurDir" THEN ResolveLoop(Tail(comps), clean)
    ELSE IF Head(comps) = "ParentDir" THEN [kind |-> "PathTraversal"]
    ELSE IF Head(comps) = "RootDir" THEN [kind |-> "OutsideRoot"]
    ELSE ResolveLoop(Tail(comps), Append(clean, Head(comps)))

\* path::resolve
resolve(base_dir, relative) ==
    IF components(relative) = <<>> THEN [kind |-> "InvalidOperation"]
    ELSE IF relative.rooted THEN [kind |-> "OutsideRoot"]
    ELSE LET clean == ResolveLoop(components(relative), <<>>) IN
         IF clean.kind # "Ok" THEN clean
         ELSE IF ~StartsWith(base_dir \o clean.path, base_dir)
         THEN [kind |-> "OutsideRoot"]
         ELSE [kind |-> "Ok", path |-> base_dir \o clean.path]

\* fs::sanitize_relative_path, the component loop: ".." pops the last
\* segment pushed and is an error when there is none
RECURSIVE SanitizeLoop(_, _)
SanitizeLoop(comps, sanitized) ==
    IF comps = <<>> THEN [kind |-> "Ok", path |-> sanitized]
    ELSE IF Head(comps) = "RootDir" THEN [kind |-> "AbsolutePath"]
    ELSE IF Head(comps) = "CurDir" THEN SanitizeLoop(Tail(comps), sanitized)
    ELSE IF Head(comps) = "ParentDir"
    THEN IF sanitized = <<>> THEN [kind |-> "TraversalAttempt"]
         ELSE SanitizeLoop(Tail(comps),
                           SubSeq(sanitized, 1, Len(sanitized) - 1))
    ELSE SanitizeLoop(Tail(comps), Append(sanitized, Head(comps)))

\* fs::sanitize_relative_path
sanitize_relative_path(path) == SanitizeLoop(components(path), <<>>)

\* --------------------------------------------------------------- filesystem
Dir == [kind |-> "dir"]
File(data) == [kind |-> "file", data |-> data]

Exists(d, loc) == loc = <<>> \/ loc \in DOMAIN d
IsDir(d, loc) == loc = <<>> \/ (loc \in DOMAIN d /\ d[loc].kind = "dir")
IsFile(d, loc) == loc \in DOMAIN d /\ d[loc].kind = "file"

\* the location and its ancestors below "/"
Prefixes(loc) == {SubSeq(loc, 1, n) : n \in 1..Len(loc)}

IoError(error) == [kind |-> "Io", error |-> error]

\* fs::create_dir_all: every missing directory down to loc
create_dir_all(d, loc) ==
    IF \E pre \in Prefixes(loc) : IsFile(d, pre)
    THEN [result |-> IoError("NotADirectory"), disk |-> d]
    ELSE [result |-> [kind |-> "Ok"],
          disk |-> [l \in DOMAIN d \cup Prefixes(loc) |->
                       IF l \in DOMAIN d THEN d[l] ELSE Dir]]

\* fs::workspace_root: the root, created when it does not exist
workspace_root(d) ==
    IF Exists(d, WorkspaceRoot)
    THEN IF ~IsDir(d, WorkspaceRoot)
         THEN [result |-> [kind |-> "WorkspaceRootInvalid"], disk |-> d]
         ELSE [result |-> [kind |-> "Ok"], disk |-> d]
    ELSE create_dir_all(d, WorkspaceRoot)

\* fs::resolve_workspace_path: the path is sanitized before the root is
\* looked up, and joined to the root
resolve_workspace_path(d, path) ==
    LET sanitized == sanitize_relative_path(path) IN
    IF sanitized.kind # "Ok" THEN [result |-> sanitized, disk |-> d]
    ELSE LET root == workspace_root(d) IN
         IF root.result.kind # "Ok" THEN root
         ELSE [result |-> [kind |-> "Ok",
                           path |-> WorkspaceRoot \o sanitized.path],
               disk |-> root.disk]

\* Mutant of write_file: the size check after the file has been opened.
write_fileMutLateCheck(d, path, data) ==
    LET target == resolve_workspace_path(d, path) IN
    IF target.result.kind # "Ok" THEN target
    ELSE LET loc == target.result.path
             made == create_dir_all(target.disk, SubSeq(loc, 1, Len(loc) - 1))
         IN IF made.result.kind # "Ok" THEN made
            ELSE IF IsDir(made.disk, loc)
            THEN [result |-> IoError("IsADirectory"), disk |-> made.disk]
            ELSE IF Len(data) > MaxFileSize
            THEN [result |-> [kind |-> "FileTooLarge", size |-> Len(data),
                              limit |-> MaxFileSize],
                  disk |-> [l \in DOMAIN made.disk \cup {loc} |->
                               IF l = loc THEN File(<<>>) ELSE made.disk[l]]]
            ELSE [result |-> [kind |-> "Ok"],
                  disk |-> [l \in DOMAIN made.disk \cup {loc} |->
                               IF l = loc THEN File(data) ELSE made.disk[l]]]

\* fs::write_file: the size check, the path, the parent directories, and
\* the file opened with create and truncate
write_file(d, path, data) ==
    IF Len(data) > MaxFileSize
    THEN [result |-> [kind |-> "FileTooLarge", size |-> Len(data),
                      limit |-> MaxFileSize],
          disk |-> d]
    ELSE LET target == resolve_workspace_path(d, path) IN
    IF target.result.kind # "Ok" THEN target
    ELSE LET loc == target.result.path
             made == create_dir_all(target.disk, SubSeq(loc, 1, Len(loc) - 1))
         IN IF made.result.kind # "Ok" THEN made
            ELSE IF IsDir(made.disk, loc)
            THEN [result |-> IoError("IsADirectory"), disk |-> made.disk]
            ELSE [result |-> [kind |-> "Ok"],
                  disk |-> [l \in DOMAIN made.disk \cup {loc} |->
                               IF l = loc THEN File(data) ELSE made.disk[l]]]

\* fs::read_file: the path, the size from the metadata, read_to_string
read_file(d, path) ==
    LET target == resolve_workspace_path(d, path) IN
    IF target.result.kind # "Ok" THEN target
    ELSE LET loc == target.result.path
             after == target.disk
         IN IF ~Exists(after, loc) \/ \E pre \in Prefixes(loc) \ {loc} :
                                          IsFile(after, pre)
            THEN [result |-> IoError("NotFound"), disk |-> after]
            ELSE IF IsDir(after, loc)
            THEN [result |-> IoError("IsADirectory"), disk |-> after]
            ELSE IF Len(after[loc].data) > MaxFileSize
            THEN [result |-> [kind |-> "FileTooLarge",
                              size |-> Len(after[loc].data),
                              limit |-> MaxFileSize],
                  disk |-> after]
            ELSE IF ~is_utf8(after[loc].data)
            THEN [result |-> IoError("InvalidData"), disk |-> after]
            ELSE [result |-> [kind |-> "Ok", contents |-> after[loc].data],
                  disk |-> after]

\* ------------------------------------------------------- filesystem inputs
\* an ASCII letter and the two bytes of U+00E9, neither of which is UTF-8
\* text alone
Bytes == {97, 195, 169}

RECURSIVE ByteStrings(_)
ByteStrings(n) ==
    IF n = 0 THEN {<<>>}
    ELSE LET shorter == ByteStrings(n - 1) IN
         shorter \cup {Append(s, b) : s \in {t \in shorter : Len(t) = n - 1},
                                      b \in Bytes}

\* the buffers handed to write_file: all up to the limit, one over it
Buffers ==
    ByteStrings(MaxFileSize) \cup {[i \in 1..(MaxFileSize + 1) |-> 97]}

PathInputs ==
    {PathOf(FALSE, <<>>), PathOf(FALSE, <<"a">>), PathOf(FALSE, <<"a", "b">>),
     PathOf(FALSE, <<".">>), PathOf(FALSE, <<".", "a">>),
     PathOf(FALSE, <<"..", "a">>),
     PathOf(FALSE, <<"a", "..", "b">>), PathOf(FALSE, <<"a", "..", "..", "b">>),
     PathOf(TRUE, <<"a">>), PathOf(TRUE, <<>>)}

\* the filesystem a behaviour starts from: no root yet, or a root holding a
\* file that something other than write_file has grown over the limit
InitialDisks ==
    {NoDisk,
     (WorkspaceRoot :> Dir) @@
         (Append(WorkspaceRoot, "b") :> File([i \in 1..(MaxFileSize + 1) |-> 97]))}

\* ------------------------------------------------------- filesystem calls
WriteFile(path, data) ==
    /\ writes < MaxWrites
    /\ LET r == write_file(disk, path, data) IN
        /\ disk' = r.disk
        /\ ret' = [op |-> "write", path |-> path, data |-> data,
                   result |-> r.result]
    /\ writes' = writes + 1
    /\ UNCHANGED <<dispatcherVars, microVars, runVars>>

ReadFile(path) ==
    /\ LET r == read_file(disk, path) IN
        /\ disk' = r.disk
        /\ ret' = [op |-> "read", path |-> path, result |-> r.result]
    /\ UNCHANGED <<dispatcherVars, microVars, writes, runVars>>

\* a call of path::resolve, as the wasm runner makes for a module path
Resolve(path) ==
    /\ ret' = [op |-> "resolve", path |-> path,
               result |-> resolve(WorkspaceRoot, path)]
    /\ UNCHANGED <<dispatcherVars, microVars, fsVars, runVars>>

FsInit ==
    /\ DispatcherInit
    /\ disk \in InitialDisks
    /\ writes = 0
    /\ RunnerInit
    /\ MicroInit

FsNext ==
    \/ \E path \in PathInputs, data \in Buffers : WriteFile(path, data)
    \/ \E path \in PathInputs : ReadFile(path)
    \/ \E path \in PathInputs : Resolve(path)

FsSpec == FsInit /\ [][FsNext]_vars

\* ----------------------------------------------------------- process runner
\* String::from_utf8_lossy: valid characters are copied, every other chunk
\* becomes U+FFFD, which is three bytes long
RECURSIVE from_utf8_lossy(_)
from_utf8_lossy(s) ==
    IF s = <<>> THEN <<>>
    ELSE LET c == Utf8Chunk(s) IN
         (IF c.valid THEN SubSeq(s, 1, c.len) ELSE <<239, 191, 189>>)
             \o from_utf8_lossy(SubSeq(s, c.len + 1, Len(s)))

\* ALLOWED_COMMANDS, three of its entries
AllowedCommands == {"sh", "/bin/sh", "deno"}

\* the programs found on DEFAULT_PATH of the host
Installed == {"sh", "/bin/sh", "rm"}

\* an absent ExecuteConfig::timeout
NoTimeout == -1

\* an absent ExecuteConfig::working_directory
NoPath == [absent |-> TRUE]

\* run::is_command_allowed: exact string equality
is_command_allowed(command) == \E allowed \in AllowedCommands : allowed = command

\* .sandbox_home under the workspace root
HomeDir == Append(WorkspaceRoot, ".sandbox_home")

\* Mutant of Prepare: the home directory is created ahead of the allow-list
\* check.
PrepareMutLateCheck(d, command, config) ==
    LET root == workspace_root(d) IN
    IF root.result.kind # "Ok" THEN root
    ELSE LET home == create_dir_all(root.disk, HomeDir) IN
    IF home.result.kind # "Ok" THEN home
    ELSE IF ~is_command_allowed(command)
    THEN [result |-> [kind |-> "CommandNotAllowed", command |-> command],
          disk |-> home.disk]
    ELSE LET timeout == IF config.timeout = NoTimeout THEN DefaultTimeout
                        ELSE config.timeout
             dir == IF config.working_directory = NoPath
                    THEN [result |-> [kind |-> "Ok", path |-> WorkspaceRoot],
                          disk |-> home.disk]
                    ELSE resolve_workspace_path(home.disk,
                                                config.working_directory)
         IN IF dir.result.kind # "Ok" THEN dir
            ELSE IF command \notin Installed \/ ~IsDir(dir.disk, dir.result.path)
            THEN [result |-> IoError("NotFound"), disk |-> dir.disk]
            ELSE [result |-> [kind |-> "Spawned", timeout |-> timeout,
                              working_directory |-> dir.result.path],
                  disk |-> dir.disk]

\* execute_with_config up to cmd.spawn(): the allow-list check, the
\* workspace root and the home directory, the timeout, the working
\* directory, and the spawn, which fails for a program that is not on the
\* path and for a working directory that is not an existing directory.
Prepare(d, command, config) ==
    IF ~is_command_allowed(command)
    THEN [result |-> [kind |-> "CommandNotAllowed", command |-> command],
          disk |-> d]
    ELSE LET root == workspace_root(d) IN
    IF root.result.kind # "Ok" THEN root
    ELSE LET home == create_dir_all(root.disk, HomeDir) IN
    IF home.result.kind # "Ok" THEN home
    ELSE LET timeout == IF config.timeout = NoTimeout THEN DefaultTimeout
                        ELSE config.timeout
             dir == IF config.working_directory = NoPath
                    THEN [result |-> [kind |-> "Ok", path |-> WorkspaceRoot],
                          disk |-> home.disk]
                    ELSE resolve_workspace_path(home.disk,
                                                config.working_directory)
         IN IF dir.result.kind # "Ok" THEN dir
            ELSE IF command \notin Installed \/ ~IsDir(dir.disk, dir.result.path)
            THEN [result |-> IoError("NotFound"), disk |-> dir.disk]
            ELSE [result |-> [kind |-> "Spawned", timeout |-> timeout,
                              working_directory |-> dir.result.path],
                  disk |-> dir.disk]

\* what a call of execute_with_config was given
CallOf(command, config) == [command |-> command, config |-> config]

\* execute_with_config from its entry to the start of wait_with_timeout:
\* either an error is returned, or the child runs with both pipes open and
\* a reader thread on each
RunStart(command, config) ==
    /\ run.pc = "idle"
    /\ runs < MaxRuns
    /\ runs' = runs + 1
    /\ LET p == Prepare(disk, command, config) IN
        /\ disk' = p.disk
        /\ IF p.result.kind # "Spawned"
           THEN /\ ret' = [op |-> "execute", call |-> CallOf(command, config),
                           result |-> p.result]
                /\ UNCHANGED <<run, child, descendant, elapsed, pipes, readers>>
           ELSE /\ run' = [pc |-> "wait", call |-> CallOf(command, config),
                           timeout |-> p.result.timeout, status |-> "None",
                           stdout |-> <<>>]
                /\ child' = [state |-> "running", status |-> "None"]
                /\ descendant' = "none"
                /\ elapsed' = 0
                /\ pipes' = [s \in Streams |-> [pending |-> <<>>, written |-> 0]]
                /\ readers' = [s \in Streams |->
                                  [state |-> "reading", buf |-> <<>>]]
                /\ ret' = NoRet
    /\ UNCHANGED <<dispatcherVars, microVars, writes>>

\* time passes while a call waits for its child
RunTick ==
    /\ run.pc = "wait" \/ micro.pc = "running"
    /\ elapsed < MaxElapsed
    /\ elapsed' = elapsed + 1
    /\ ret' = NoRet
    /\ UNCHANGED <<dispatcherVars, microVars, fsVars, run, child, descendant, pipes,
                   readers, runs>>

\* the bytes a child prints
OutputBytes == {97, 255}

\* whether some process holds the write end of the pipes
WriteEndOpen == child.state = "running" \/ descendant \in {"job", "daemon"}

\* a call has a child, and has not returned
Calling == run.pc # "idle" \/ micro.pc # "idle"

\* the child writes a byte to a pipe whose read end is open
ChildWrite(s, b) ==
    /\ child.state = "running"
    /\ \/ run.pc # "idle" /\ readers[s].state = "reading"
       \/ micro.pc = "running"
    /\ pipes[s].written <= MaxOutput
    /\ pipes' = [pipes EXCEPT ![s].pending = Append(@, b),
                              ![s].written = @ + 1]
    /\ ret' = NoRet
    /\ UNCHANGED <<dispatcherVars, microVars, fsVars, run, child, descendant, elapsed,
                   readers, runs>>

\* the child forks a process that inherits both pipes: a job that ends, or
\* a daemon that does not
ChildFork(kind) ==
    /\ Calling
    /\ child.state = "running"
    /\ descendant = "none"
    /\ descendant' = kind
    /\ ret' = NoRet
    /\ UNCHANGED <<dispatcherVars, microVars, fsVars, run, child, elapsed, pipes,
                   readers, runs>>

\* a forked job ends and closes its copies of the pipes
DescendantExit ==
    /\ Calling
    /\ descendant = "job"
    /\ descendant' = "gone"
    /\ ret' = NoRet
    /\ UNCHANGED <<dispatcherVars, microVars, fsVars, run, child, elapsed, pipes,
                   readers, runs>>

\* the child ends by itself: with an exit code, or killed by a signal
ChildEnd(status) ==
    /\ Calling
    /\ child.state = "running"
    /\ child' = [state |-> "zombie", status |-> status]
    /\ ret' = NoRet
    /\ UNCHANGED <<dispatcherVars, microVars, fsVars, run, descendant, elapsed, pipes,
                   readers, runs>>

\* One round of the loop of read_stream over what the pipe holds: a read of
\* up to a chunk; zero bytes at end of file end the loop with the buffer; a
\* chunk that takes the buffer over the limit ends it with OutputLimit and
\* drops the reader, which closes the read end.
read_stream(buf, pending, open) ==
    IF pending = <<>>
    THEN IF open THEN [state |-> "reading", buf |-> buf, pending |-> pending]
         ELSE [state |-> "eof", buf |-> buf, pending |-> pending]
    ELSE LET read == Min(Len(pending), ChunkSize) IN
         IF Len(buf) + read > MaxOutput
         THEN [state |-> "overflow", buf |-> <<>>, pending |-> <<>>]
         ELSE [state |-> "reading", buf |-> buf \o SubSeq(pending, 1, read),
               pending |-> SubSeq(pending, read + 1, Len(pending))]

\* a reader thread gets a chunk, or the end of the stream
ReaderRead(s) ==
    /\ readers[s].state = "reading"
    /\ pipes[s].pending # <<>> \/ ~WriteEndOpen
    /\ LET r == read_stream(readers[s].buf, pipes[s].pending, WriteEndOpen) IN
        /\ readers' = [readers EXCEPT ![s] = [state |-> r.state, buf |-> r.buf]]
        /\ pipes' = [pipes EXCEPT ![s].pending = r.pending]
    /\ ret' = NoRet
    /\ UNCHANGED <<dispatcherVars, microVars, fsVars, run, child, descendant, elapsed,
                   runs>>

\* One round of the loop of wait_with_timeout: try_wait reaps a child that
\* has ended and gives its status; otherwise, at or after the deadline, the
\* child is killed and waited for and the result is Timeout(timeout);
\* otherwise the thread sleeps.
wait_with_timeout(c, time, timeout) ==
    IF c.state = "zombie"
    THEN [kind |-> "Ok", status |-> c.status,
          child |-> [state |-> "reaped", status |-> c.status]]
    ELSE IF time >= timeout
    THEN [kind |-> "Timeout", timeout |-> timeout,
          child |-> [state |-> "reaped", status |-> "Signal"]]
    ELSE [kind |-> "Sleep", child |-> c]

\* a round of wait_with_timeout that ends the wait
RunPoll ==
    /\ run.pc = "wait"
    /\ LET w == wait_with_timeout(child, elapsed, run.timeout) IN
        /\ w.kind # "Sleep"
        /\ child' = w.child
        /\ run' = IF w.kind = "Ok"
                  THEN [run EXCEPT !.pc = "join_stdout", !.status = w.status]
                  ELSE [run EXCEPT !.pc = "timeout_stdout"]
    /\ ret' = NoRet
    /\ UNCHANGED <<dispatcherVars, microVars, fsVars, descendant, elapsed, pipes, readers,
                   runs>>

\* whether a reader thread has returned, so that join_reader returns
Finished(s) == readers[s].state \in {"eof", "overflow"}

OutputLimit(s) == [kind |-> "OutputLimit", stream |-> s, limit |-> MaxOutput]

\* what the child printed on each stream during the call
Produced == [s \in Streams |-> pipes[s].written]

Returns(result) ==
    /\ ret' = [op |-> "execute", call |-> run.call, result |-> result,
               produced |-> Produced, child |-> child.state,
               status |-> run.status, timeout |-> run.timeout]
    /\ run' = RunIdle

\* the ExecutionResult that execute_with_config builds
RunResult(status, stdout_bytes, stderr_bytes) ==
    [kind |-> "Ok", status |-> status,
     stdout |-> from_utf8_lossy(stdout_bytes),
     stderr |-> from_utf8_lossy(stderr_bytes)]

\* join_reader(stdout_handle)?
RunJoinStdout ==
    /\ run.pc = "join_stdout"
    /\ Finished("stdout")
    /\ IF readers["stdout"].state = "overflow"
       THEN Returns(OutputLimit("stdout"))
       ELSE /\ run' = [run EXCEPT !.pc = "join_stderr",
                                  !.stdout = readers["stdout"].buf]
            /\ ret' = NoRet
    /\ UNCHANGED <<dispatcherVars, microVars, fsVars, child, descendant, elapsed, pipes,
                   readers, runs>>

\* join_reader(stderr_handle)? and the result
RunJoinStderr ==
    /\ run.pc = "join_stderr"
    /\ Finished("stderr")
    /\ IF readers["stderr"].state = "overflow"
       THEN Returns(OutputLimit("stderr"))
       ELSE Returns(RunResult(run.status, run.stdout, readers["stderr"].buf))
    /\ UNCHANGED <<dispatcherVars, microVars, fsVars, child, descendant, elapsed, pipes,
                   readers, runs>>

\* after a timeout: let _ = join_reader(stdout_handle)
RunTimeoutStdout ==
    /\ run.pc = "timeout_stdout"
    /\ Finished("stdout")
    /\ run' = [run EXCEPT !.pc = "timeout_stderr"]
    /\ ret' = NoRet
    /\ UNCHANGED <<dispatcherVars, microVars, fsVars, child, descendant, elapsed, pipes,
                   readers, runs>>

\* after a timeout: let _ = join_reader(stderr_handle), and the error
RunTimeoutStderr ==
    /\ run.pc = "timeout_stderr"
    /\ Finished("stderr")
    /\ Returns([kind |-> "Timeout", timeout |-> run.timeout])
    /\ UNCHANGED <<dispatcherVars, microVars, fsVars, child, descendant, elapsed, pipes,
                   readers, runs>>

\* ------------------------------------------------------------ runner inputs
Commands == {"sh", "deno", "rm", "sh -c"}

Timeouts == {NoTimeout, 0, DefaultTimeout + 1}

WorkingDirectories ==
    {NoPath, PathOf(FALSE, <<"a">>), PathOf(FALSE, <<"..", "a">>),
     PathOf(FALSE, <<"b">>)}

ExecuteConfigs ==
    {[timeout |-> t, working_directory |-> w] :
        t \in Timeouts, w \in WorkingDirectories}

\* the disk before a call: nothing yet, or a workspace with a directory "a"
RunDisks == {NoDisk, (WorkspaceRoot :> Dir) @@ (Append(WorkspaceRoot, "a") :> Dir)}

RunInit ==
    /\ DispatcherInit
    /\ disk \in RunDisks
    /\ writes = 0
    /\ RunnerInit
    /\ MicroInit

\* the steps of the machine outside the calling thread
RunEnvironment ==
    \/ RunTick
    \/ \E s \in Streams, b \in OutputBytes : ChildWrite(s, b)
    \/ \E kind \in {"job", "daemon"} : ChildFork(kind)
    \/ DescendantExit
    \/ \E status \in {"Exit", "Signal"} : ChildEnd(status)

\* the steps of the call and of its reader threads
RunProgress ==
    \/ \E s \in Streams : ReaderRead(s)
    \/ RunPoll
    \/ RunJoinStdout
    \/ RunJoinStderr
    \/ RunTimeoutStdout
    \/ RunTimeoutStderr

RunNext ==
    \/ \E command \in Commands, config \in ExecuteConfigs :
           RunStart(command, config)
    \/ RunEnvironment
    \/ RunProgress

RunSpec == RunInit /\ [][RunNext]_vars

\* ----------------------------------------------------------- micro-VM runner
\* Uuid::new_v4 of the n-th start
VmId(n) == "vm" \o ToString(n)

\* self.config.root().join(vm_id.to_string())
Workdir(id) == <<"micro", id>>

\* the workdir of the first instance
MicroWorkdir == Workdir(VmId(1))

\* script_<uuid>.<extension> in the workdir
ScriptPath(workdir) == Append(workdir, "script")

\* the images of the configuration: one whose interpreter is on the host,
\* one whose interpreter is not
MicroImages ==
    {[name |-> "shell", command |-> "sh"], [name |-> "ghost", command |-> "deno"]}

\* source.to_string(), with a newline pushed unless it ends with one
ScriptContents(source) ==
    IF source # <<>> /\ source[Len(source)] = 10 THEN source
    ELSE Append(source, 10)

Sources == {<<97>>, <<97, 10>>}

\* remove_file, its error ignored
remove_file(d, loc) ==
    IF IsFile(d, loc) THEN [l \in DOMAIN d \ {loc} |-> d[l]] ELSE d

\* fs::remove_dir_all: the directory and everything under it
remove_dir_all(d, loc) ==
    IF ~Exists(d, loc) THEN [result |-> IoError("NotFound"), disk |-> d]
    ELSE IF ~IsDir(d, loc) THEN [result |-> IoError("NotADirectory"), disk |-> d]
    ELSE [result |-> [kind |-> "Ok"],
          disk |-> [l \in {x \in DOMAIN d : ~StartsWith(x, loc)} |-> d[l]]]

\* run_code returns to the function that called it: start keeps the result
\* for its own return; execute returns it as its own
RunCodeReturns(call, result, c) ==
    IF call.caller = "start"
    THEN /\ starter' = [starter EXCEPT !.pc = "returned", !.ran = @ + 1,
                                       !.result = result]
         /\ ret' = NoRet
    ELSE /\ ret' = [op |-> "run_code", caller |-> call.caller, id |-> call.id,
                    timeout |-> call.timeout, result |-> result, child |-> c]
         /\ UNCHANGED starter

\* run_code from its entry to the await of the child: the script is
\* written, and the interpreter spawned with both pipes
RunCodeEnter(call) ==
    /\ run.pc = "idle"
    /\ scripts' = scripts + 1
    /\ IF ~IsDir(disk, call.workdir)
       THEN /\ RunCodeReturns(call, IoError("NotFound"), child.state)
            /\ micro' = MicroIdle
            /\ UNCHANGED <<disk, child, descendant, elapsed, pipes>>
       ELSE /\ disk' = [l \in DOMAIN disk \cup {ScriptPath(call.workdir)} |->
                           IF l = ScriptPath(call.workdir)
                           THEN File(ScriptContents(call.source))
                           ELSE disk[l]]
            /\ IF call.image.command \notin Installed
               THEN /\ RunCodeReturns(call, IoError("NotFound"), child.state)
                    /\ micro' = MicroIdle
                    /\ UNCHANGED <<child, descendant, elapsed, pipes>>
               ELSE /\ micro' = [call EXCEPT !.pc = "running"]
                    /\ child' = [state |-> "running", status |-> "None"]
                    /\ descendant' = "none"
                    /\ elapsed' = 0
                    /\ pipes' = [s \in Streams |->
                                    [pending |-> <<>>, written |-> 0]]
                    /\ ret' = NoRet
                    /\ UNCHANGED starter
    /\ UNCHANGED <<dispatcherVars, writes, run, readers, runs, instances,
                   allocated, stopper>>

\* the locals of a call of run_code
RunCodeCall(caller, id, image, workdir, source, timeout) ==
    [pc |-> "ready", caller |-> caller, id |-> id, image |-> image,
     workdir |-> workdir, source |-> source, timeout |-> timeout]

\* run_code called on the workdir of the first instance
RunCodeStart(image, source, timeout) ==
    /\ micro.pc = "idle"
    /\ scripts < MaxScripts
    /\ RunCodeEnter(RunCodeCall("run_code", VmId(1), image, MicroWorkdir,
                                source, timeout))

\* run_code called by execute or by start
RunCodeBegin ==
    /\ micro.pc = "ready"
    /\ RunCodeEnter(micro)

\* wait_with_output has the child and the end of both streams
OutputReady == child.state = "reaped" /\ ~WriteEndOpen

\* wait_with_output: the wait half reaps a child that has ended
RunCodeWait ==
    /\ micro.pc = "running"
    /\ child.state = "zombie"
    /\ child' = [child EXCEPT !.state = "reaped"]
    /\ ret' = NoRet
    /\ UNCHANGED <<dispatcherVars, fsVars, run, descendant, elapsed, pipes,
                   readers, runs, micro, scripts, vmVars>>

\* Mutant of run_code_result: the exit status is looked at before the caps.
run_code_resultMutSignalFirst(status, stdout, stderr) ==
    IF status = "Signal" THEN [kind |-> "TerminatedBySignal"]
    ELSE IF Len(stdout) > MaxOutput
    THEN [kind |-> "OutputTooLarge", stream |-> "stdout", limit |-> MaxOutput]
    ELSE IF Len(stderr) > MaxOutput
    THEN [kind |-> "OutputTooLarge", stream |-> "stderr", limit |-> MaxOutput]
    ELSE [kind |-> "Ok", exit_code |-> IF status = "Exit" THEN 0 ELSE 1,
          stdout |-> stdout, stderr |-> stderr]

\* run_code after the child's output: the caps, then the exit code
run_code_result(status, stdout, stderr) ==
    IF Len(stdout) > MaxOutput
    THEN [kind |-> "OutputTooLarge", stream |-> "stdout", limit |-> MaxOutput]
    ELSE IF Len(stderr) > MaxOutput
    THEN [kind |-> "OutputTooLarge", stream |-> "stderr", limit |-> MaxOutput]
    ELSE IF status = "Signal" THEN [kind |-> "TerminatedBySignal"]
    ELSE [kind |-> "Ok", exit_code |-> IF status = "Exit" THEN 0 ELSE 1,
          stdout |-> stdout, stderr |-> stderr]

\* run_code: the output arrived within the timeout
RunCodeFinish ==
    /\ micro.pc = "running"
    /\ OutputReady
    /\ disk' = remove_file(disk, ScriptPath(micro.workdir))
    /\ RunCodeReturns(micro,
                      run_code_result(child.status, pipes["stdout"].pending,
                                      pipes["stderr"].pending),
                      child.state)
    /\ micro' = MicroIdle
    /\ UNCHANGED <<dispatcherVars, writes, run, child, descendant, elapsed,
                   pipes, readers, runs, scripts, instances, allocated,
                   stopper>>

\* What dropping the Child future does to the child, with kill_on_drop: a
\* child already reaped stays so; otherwise it is sent the kill signal and
\* try_wait is tried once, which reaps it if it has ended by then; if not,
\* the child goes to the orphan queue of the runtime.
DropChild(c) ==
    IF c.state = "reaped" THEN {c}
    ELSE IF c.state = "zombie" THEN {[c EXCEPT !.state = "reaped"]}
    ELSE {[state |-> "reaped", status |-> "Signal"],
          [state |-> "orphan", status |-> "Signal"]}

\* run_code: the timeout elapsed with the output not ready; the future that
\* owns the child is dropped, the script removed, and Timeout returned
RunCodeTimeout ==
    /\ micro.pc = "running"
    /\ elapsed >= micro.timeout
    /\ ~OutputReady
    /\ \E c \in DropChild(child) :
        /\ child' = c
        /\ RunCodeReturns(micro,
                          [kind |-> "Timeout", timeout |-> micro.timeout],
                          c.state)
    /\ disk' = remove_file(disk, ScriptPath(micro.workdir))
    /\ micro' = MicroIdle
    /\ UNCHANGED <<dispatcherVars, writes, run, descendant, elapsed, pipes,
                   readers, runs, scripts, instances, allocated, stopper>>

\* the runtime reaps a child of its orphan queue
OrphanReap ==
    /\ child.state = "orphan"
    /\ child' = [child EXCEPT !.state = "reaped"]
    /\ ret' = NoRet
    /\ UNCHANGED <<dispatcherVars, fsVars, run, descendant, elapsed, pipes,
                   readers, runs, micro, scripts, vmVars>>

\* the timeouts execute and start hand to run_code
MicroTimeouts == 1..MaxElapsed

\* the disk of a started instance
MicroDisk == (<<"micro">> :> Dir) @@ (MicroWorkdir :> Dir)

MicroSpecInit ==
    /\ DispatcherInit
    /\ disk = MicroDisk
    /\ writes = 0
    /\ RunnerInit
    /\ MicroInit

MicroNext ==
    \/ \E image \in MicroImages, source \in Sources, timeout \in MicroTimeouts :
           RunCodeStart(image, source, timeout)
    \/ RunCodeWait
    \/ RunCodeFinish
    \/ RunCodeTimeout
    \/ OrphanReap
    \/ RunEnvironment
    \/ ChildEnd("Fail")

MicroSpec == MicroSpecInit /\ [][MicroNext]_vars

\* ------------------------------------------------------- micro-VM lifecycle
\* MicroConfig::default_timeout and max_timeout
default_timeout == DefaultTimeout

micro_max_timeout == MaxElapsed

\* MicroConfig::image
ImageNames == {i.name : i \in MicroImages}

image(name) == CHOOSE i \in MicroImages : i.name = name

\* request.init_script: None, or Some(script)
NoScript == <<>>

Some(script) == <<script>>

Whitespace == {9, 10, 32}

\* script.trim().is_empty()
trim_is_empty(script) == \A i \in 1..Len(script) : script[i] \in Whitespace

\* start, from the image lookup to the workdir; an init script that is not
\* blank is handed to run_code
StartCallMutLateLookup(name, init_script) ==
    /\ starter.pc = "idle"
    /\ allocated < MaxVms
    /\ IF name \notin ImageNames
       THEN /\ ret' = [op |-> "start", image |-> name,
                       result |-> [kind |-> "MicroImageNotConfigured",
                                   name |-> name]]
            /\ disk' = create_dir_all(disk, Workdir(VmId(allocated + 1))).disk
            /\ UNCHANGED <<micro, allocated, starter>>
       ELSE LET vm_id == VmId(allocated + 1)
                workdir == Workdir(vm_id)
                made == create_dir_all(disk, workdir)
                call == [pc |-> "init", id |-> vm_id, image |-> image(name),
                         workdir |-> workdir, script |-> init_script,
                         ran |-> 0, result |-> [kind |-> "None"]] IN
            /\ allocated' = allocated + 1
            /\ disk' = made.disk
            /\ IF made.result.kind # "Ok"
               THEN /\ ret' = [op |-> "start", image |-> name,
                               result |-> made.result]
                    /\ UNCHANGED <<micro, starter>>
               ELSE IF init_script # NoScript /\ ~trim_is_empty(init_script[1])
               THEN /\ micro.pc = "idle"
                    /\ scripts < MaxScripts
                    /\ micro' = RunCodeCall("start", vm_id, image(name),
                                            workdir, init_script[1],
                                            default_timeout)
                    /\ starter' = call
                    /\ ret' = NoRet
               ELSE /\ starter' = [call EXCEPT !.pc = "created"]
                    /\ ret' = NoRet
                    /\ UNCHANGED micro
    /\ UNCHANGED <<dispatcherVars, writes, runVars, scripts, instances,
                   stopper>>

StartCall(name, init_script) ==
    /\ starter.pc = "idle"
    /\ allocated < MaxVms
    /\ IF name \notin ImageNames
       THEN /\ ret' = [op |-> "start", image |-> name,
                       result |-> [kind |-> "MicroImageNotConfigured",
                                   name |-> name]]
            /\ UNCHANGED <<disk, micro, allocated, starter>>
       ELSE LET vm_id == VmId(allocated + 1)
                workdir == Workdir(vm_id)
                made == create_dir_all(disk, workdir)
                call == [pc |-> "init", id |-> vm_id, image |-> image(name),
                         workdir |-> workdir, script |-> init_script,
                         ran |-> 0, result |-> [kind |-> "None"]] IN
            /\ allocated' = allocated + 1
            /\ disk' = made.disk
            /\ IF made.result.kind # "Ok"
               THEN /\ ret' = [op |-> "start", image |-> name,
                               result |-> made.result]
                    /\ UNCHANGED <<micro, starter>>
               ELSE IF init_script # NoScript /\ ~trim_is_empty(init_script[1])
               THEN /\ micro.pc = "idle"
                    /\ scripts < MaxScripts
                    /\ micro' = RunCodeCall("start", vm_id, image(name),
                                            workdir, init_script[1],
                                            default_timeout)
                    /\ starter' = call
                    /\ ret' = NoRet
               ELSE /\ starter' = [call EXCEPT !.pc = "created"]
                    /\ ret' = NoRet
                    /\ UNCHANGED micro
    /\ UNCHANGED <<dispatcherVars, writes, runVars, scripts, instances,
                   stopper>>

\* start, after the init script: a failure removes the workdir and is
\* returned; otherwise the instance is inserted
StartFinishMutInsert ==
    /\ starter.pc \in {"created", "returned"}
    /\ IF starter.pc = "returned" /\ starter.result.kind = "None"
       THEN /\ disk' = remove_dir_all(disk, starter.workdir).disk
            /\ ret' = [op |-> "start", image |-> starter.image.name,
                       id |-> starter.id, script |-> starter.script,
                       ran |-> starter.ran, result |-> starter.result]
            /\ UNCHANGED instances
       ELSE /\ instances' = (starter.id :> [image |-> starter.image.name,
                                            workdir |-> starter.workdir])
                            @@ instances
            /\ ret' = [op |-> "start", image |-> starter.image.name,
                       id |-> starter.id, script |-> starter.script,
                       ran |-> starter.ran, result |-> [kind |-> "Ok"]]
            /\ UNCHANGED disk
    /\ starter' = MicroIdle
    /\ UNCHANGED <<dispatcherVars, writes, runVars, micro, scripts, allocated,
                   stopper>>

\* Mutant of StartFinish: an init script that exits with a non-zero code
\* fails start like an error of the run.
StartFinishMutExitCode ==
    /\ starter.pc \in {"created", "returned"}
    /\ IF starter.pc = "returned"
          /\ (starter.result.kind # "Ok" \/ starter.result.exit_code # 0)
       THEN /\ disk' = remove_dir_all(disk, starter.workdir).disk
            /\ ret' = [op |-> "start", image |-> starter.image.name,
                       id |-> starter.id, script |-> starter.script,
                       ran |-> starter.ran, result |-> starter.result]
            /\ UNCHANGED instances
       ELSE /\ instances' = (starter.id :> [image |-> starter.image.name,
                                            workdir |-> starter.workdir])
                            @@ instances
            /\ ret' = [op |-> "start", image |-> starter.image.name,
                       id |-> starter.id, script |-> starter.script,
                       ran |-> starter.ran, result |-> [kind |-> "Ok"]]
            /\ UNCHANGED disk
    /\ starter' = MicroIdle
    /\ UNCHANGED <<dispatcherVars, writes, runVars, micro, scripts, allocated,
                   stopper>>

StartFinish ==
    /\ starter.pc \in {"created", "returned"}
    /\ IF starter.pc = "returned" /\ starter.result.kind # "Ok"
       THEN /\ disk' = remove_dir_all(disk, starter.workdir).disk
            /\ ret' = [op |-> "start", image |-> starter.image.name,
                       id |-> starter.id, script |-> starter.script,
                       ran |-> starter.ran, result |-> starter.result]
            /\ UNCHANGED instances
       ELSE /\ instances' = (starter.id :> [image |-> starter.image.name,
                                            workdir |-> starter.workdir])
                            @@ instances
            /\ ret' = [op |-> "start", image |-> starter.image.name,
                       id |-> starter.id, script |-> starter.script,
                       ran |-> starter.ran, result |-> [kind |-> "Ok"]]
            /\ UNCHANGED disk
    /\ starter' = MicroIdle
    /\ UNCHANGED <<dispatcherVars, writes, runVars, micro, scripts, allocated,
                   stopper>>

\* execute, up to the call of run_code: the lookup under the lock and the
\* timeout
ExecuteCallMutNoMax(vm_id, code, timeout) ==
    LET resolved == IF timeout = NoTimeout THEN default_timeout ELSE timeout
        rejected(kind) == /\ ret' = [op |-> "execute", id |-> vm_id,
                                     timeout |-> timeout,
                                     result |-> [kind |-> kind]]
                          /\ UNCHANGED micro IN
    /\ IF vm_id \notin DOMAIN instances THEN rejected("MicroVmNotFound")
       ELSE IF resolved = 0 THEN rejected("InvalidOperation")
       ELSE IF resolved > micro_max_timeout + 1 THEN rejected("InvalidOperation")
       ELSE /\ micro.pc = "idle"
            /\ scripts < MaxScripts
            /\ micro' = RunCodeCall("execute", vm_id,
                                    image(instances[vm_id].image),
                                    instances[vm_id].workdir, code, resolved)
            /\ ret' = NoRet
    /\ UNCHANGED <<dispatcherVars, fsVars, runVars, scripts, vmVars>>

ExecuteCall(vm_id, code, timeout) ==
    LET resolved == IF timeout = NoTimeout THEN default_timeout ELSE timeout
        rejected(kind) == /\ ret' = [op |-> "execute", id |-> vm_id,
                                     timeout |-> timeout,
                                     result |-> [kind |-> kind]]
                          /\ UNCHANGED micro IN
    /\ IF vm_id \notin DOMAIN instances THEN rejected("MicroVmNotFound")
       ELSE IF resolved = 0 THEN rejected("InvalidOperation")
       ELSE IF resolved > micro_max_timeout THEN rejected("InvalidOperation")
       ELSE /\ micro.pc = "idle"
            /\ scripts < MaxScripts
            /\ micro' = RunCodeCall("execute", vm_id,
                                    image(instances[vm_id].image),
                                    instances[vm_id].workdir, code, resolved)
            /\ ret' = NoRet
    /\ UNCHANGED <<dispatcherVars, fsVars, runVars, scripts, vmVars>>

\* stop, under the lock: the instance leaves the registry
StopCallMutKeep(vm_id) ==
    /\ stopper.pc = "idle"
    /\ IF vm_id \notin DOMAIN instances
       THEN /\ ret' = [op |-> "stop", id |-> vm_id,
                       result |-> [kind |-> "MicroVmNotFound"]]
            /\ UNCHANGED <<instances, stopper>>
       ELSE /\ instances' = instances
            /\ stopper' = [pc |-> "removing", id |-> vm_id,
                           workdir |-> instances[vm_id].workdir]
            /\ ret' = NoRet
    /\ UNCHANGED <<dispatcherVars, fsVars, runVars, micro, scripts, allocated,
                   starter>>

StopCall(vm_id) ==
    /\ stopper.pc = "idle"
    /\ IF vm_id \notin DOMAIN instances
       THEN /\ ret' = [op |-> "stop", id |-> vm_id,
                       result |-> [kind |-> "MicroVmNotFound"]]
            /\ UNCHANGED <<instances, stopper>>
       ELSE /\ instances' = [i \in DOMAIN instances \ {vm_id} |-> instances[i]]
            /\ stopper' = [pc |-> "removing", id |-> vm_id,
                           workdir |-> instances[vm_id].workdir]
            /\ ret' = NoRet
    /\ UNCHANGED <<dispatcherVars, fsVars, runVars, micro, scripts, allocated,
                   starter>>

\* fs::remove_dir_all, its walk: everything found under the directory is
\* unlinked
remove_contents(d, loc) ==
    [l \in {x \in DOMAIN d : x = loc \/ ~StartsWith(x, loc)} |-> d[l]]

\* fs::remove_dir_all, its last step: the directory itself is removed, which
\* fails when an entry was created in it after the walk
remove_dir(d, loc) ==
    IF ~Exists(d, loc) THEN [result |-> IoError("NotFound"), disk |-> d]
    ELSE IF \E x \in DOMAIN d : x # loc /\ StartsWith(x, loc)
    THEN [result |-> IoError("DirectoryNotEmpty"), disk |-> d]
    ELSE [result |-> [kind |-> "Ok"], disk |-> [l \in DOMAIN d \ {loc} |-> d[l]]]

\* what stop returns for the result of remove_dir_all: NotFound is no error
StopReturns(missing, result) ==
    [op |-> "stop", id |-> stopper.id, missing |-> missing,
     result |-> IF result = IoError("NotFound") THEN [kind |-> "Ok"] ELSE result]

\* stop, after the lock: remove_dir_all opens the workdir and unlinks what it
\* finds in it; a missing workdir ends the call with success
StopRemove ==
    /\ stopper.pc = "removing"
    /\ IF ~IsDir(disk, stopper.workdir)
       THEN /\ ret' = StopReturns(TRUE, remove_dir_all(disk, stopper.workdir).result)
            /\ stopper' = MicroIdle
            /\ UNCHANGED disk
       ELSE /\ disk' = remove_contents(disk, stopper.workdir)
            /\ stopper' = [stopper EXCEPT !.pc = "rmdir"]
            /\ ret' = NoRet
    /\ UNCHANGED <<dispatcherVars, writes, runVars, micro, scripts, instances,
                   allocated, starter>>

\* stop, the end of remove_dir_all and the return: the emptied workdir is
\* removed
StopRmdir ==
    /\ stopper.pc = "rmdir"
    /\ LET removed == remove_dir(disk, stopper.workdir) IN
        /\ disk' = removed.disk
        /\ ret' = StopReturns(~Exists(disk, stopper.workdir), removed.result)
    /\ stopper' = MicroIdle
    /\ UNCHANGED <<dispatcherVars, writes, runVars, micro, scripts, instances,
                   allocated, starter>>

\* the workdir of a registered instance is removed from outside the runner
WorkdirVanishes(vm_id) ==
    /\ vm_id \in DOMAIN instances
    /\ IsDir(disk, instances[vm_id].workdir)
    /\ disk' = remove_dir_all(disk, instances[vm_id].workdir).disk
    /\ ret' = NoRet
    /\ UNCHANGED <<dispatcherVars, writes, runVars, microVars>>

\* the inputs of the calls
StartImages == ImageNames \cup {"unknown"}

InitScripts == {NoScript, Some(<<>>), Some(<<32>>), Some(<<97>>)}

VmIds == {VmId(n) : n \in 1..MaxVms}

MicroRequestTimeouts == {NoTimeout, 0, micro_max_timeout, micro_max_timeout + 1}

\* what the interpreter child does
VmEnvironment ==
    \/ RunTick
    \/ ChildWrite("stdout", 97)
    \/ \E status \in {"Exit", "Fail", "Signal"} : ChildEnd(status)

VmNext ==
    \/ \E name \in StartImages, init_script \in InitScripts :
           StartCall(name, init_script)
    \/ StartFinish
    \/ \E vm_id \in VmIds, timeout \in MicroRequestTimeouts :
           ExecuteCall(vm_id, <<97>>, timeout)
    \/ RunCodeBegin
    \/ RunCodeWait
    \/ RunCodeFinish
    \/ RunCodeTimeout
    \/ OrphanReap
    \/ \E vm_id \in VmIds : StopCall(vm_id)
    \/ StopRemove
    \/ StopRmdir
    \/ \E vm_id \in VmIds : WorkdirVanishes(vm_id)
    \/ VmEnvironment

VmSpec == Init /\ [][VmNext]_vars

\* ------------------------------------------------ process runner environment
\* SandboxRun::execute, the runner of RunRequest and RunConfig: its policy
\* steps up to the spawn, as far as they decide the environment of the child.

\* the environment of the server process
ServerEnv == ("PATH" :> "/server/bin") @@ ("SECRET" :> "token")

\* an environment with no entry
NoEnv == [k \in {} |-> ""]

\* RunConfig of the runner: allowed_programs, env_allowlist, fixed_env
allowed_programs == {"/bin/sh"}

env_allowlist == {"PATH", "CUSTOM_GREETING"}

fixed_env == "PATH" :> "/usr/bin:/bin"

\* the pairs of request.env[from..] are verified and set in order, the
\* first key outside env_allowlist ending the call
apply_envMutSkip(env, pairs) ==
    LET RECURSIVE Go(_, _)
        Go(e, i) ==
            IF i > Len(pairs) THEN [kind |-> "Ok", env |-> e]
            ELSE IF pairs[i][1] \notin env_allowlist THEN Go(e, i + 1)
            ELSE Go((pairs[i][1] :> pairs[i][2]) @@ e, i + 1)
    IN Go(env, 1)

apply_env(env, pairs) ==
    LET RECURSIVE Go(_, _)
        Go(e, i) ==
            IF i > Len(pairs) THEN [kind |-> "Ok", env |-> e]
            ELSE IF pairs[i][1] \notin env_allowlist
            THEN [kind |-> "InvalidOperation"]
            ELSE Go((pairs[i][1] :> pairs[i][2]) @@ e, i + 1)
    IN Go(env, 1)

\* the environment the spawned child sees: the entries set on the command,
\* over the server's environment unless that was cleared
child_env(cleared, env) == IF cleared THEN env ELSE env @@ ServerEnv

\* execute, up to the spawn
SandboxRunExecute(request) ==
    /\ ret' =
        IF request.program \notin allowed_programs
        THEN [op |-> "SandboxRun::execute", request |-> request,
              result |-> [kind |-> "InvalidOperation"],
              spawned |-> FALSE, env |-> NoEnv]
        ELSE LET e == apply_env(fixed_env, request.env) IN
            IF e.kind # "Ok"
            THEN [op |-> "SandboxRun::execute", request |-> request,
                  result |-> [kind |-> "InvalidOperation"],
                  spawned |-> FALSE, env |-> NoEnv]
            ELSE [op |-> "SandboxRun::execute", request |-> request,
                  result |-> [kind |-> "Spawned"],
                  spawned |-> TRUE, env |-> child_env(TRUE, e.env)]
    /\ UNCHANGED <<dispatcherVars, sandboxVars>>

EnvKeys == {"PATH", "CUSTOM_GREETING", "SECRET"}

EnvValues == {"ready", "1"}

EnvPairs == EnvKeys \X EnvValues

EnvLists == UNION {[1..n -> EnvPairs] : n \in 0..MaxEnvPairs}

RunRequests == [program : {"/bin/sh", "/usr/bin/env"}, env : EnvLists]

EnvNext == \E request \in RunRequests : SandboxRunExecute(request)

EnvSpec == Init /\ [][EnvNext]_vars

\* -------------------------------------------------------------- wasm runner
\* Option::None of a fuel or limit
NoValue == -1

\* WasmConfig::root
WasmRoot == <<"wasm">>

\* The modules of the model, by their bytes: "add" exports the function add
\* and has neither memory nor table; "counter" has a memory of two units, a
\* table of one element and a global that its function bump increments and
\* returns.
WasmModules == (<<1>> :> "add") @@ (<<2>> :> "counter")

\* Module::new
Module_new(bytes) ==
    IF bytes \in DOMAIN WasmModules
    THEN [kind |-> "Ok", module |-> WasmModules[bytes]]
    ELSE [kind |-> "InvalidOperation", at |-> "compile"]

MemoryOf(module) == IF module = "counter" THEN 2 ELSE 0

TableOf(module) == IF module = "counter" THEN 1 ELSE 0

FunctionsOf(module) ==
    IF module = "add" THEN {"add"}
    ELSE IF module = "counter" THEN {"bump"} ELSE {}

\* Store::new: no fuel, no limits, nothing instantiated
Store_newMutReuse ==
    IF ret.op = "invoke" THEN ret.store
    ELSE [fuel |-> NoValue, memory_limit |-> NoValue, table_limit |-> NoValue,
          counter |-> 0]

Store_new ==
    [fuel |-> NoValue, memory_limit |-> NoValue, table_limit |-> NoValue,
     counter |-> 0]

\* Store::add_fuel
add_fuel(store, fuel) ==
    [store EXCEPT !.fuel = (IF @ = NoValue THEN 0 ELSE @) + fuel]

\* Instance::new with no imports, under the limits of the store
Instance_new(store, module) ==
    IF MemoryOf(module) > store.memory_limit
       \/ TableOf(module) > store.table_limit
    THEN [kind |-> "InvalidOperation", at |-> "instantiate"]
    ELSE [kind |-> "Ok"]

\* Function::call: a call takes one unit of fuel when the store has fuel
call(store, function, params) ==
    IF store.fuel # NoValue /\ store.fuel < 1
    THEN [result |-> [kind |-> "WasmTrap"], store |-> store]
    ELSE LET after == IF store.fuel = NoValue THEN store
                      ELSE [store EXCEPT !.fuel = @ - 1] IN
        IF function = "add"
        THEN IF Len(params) # 2
             THEN [result |-> [kind |-> "WasmTrap"], store |-> after]
             ELSE [result |-> [kind |-> "Ok",
                               values |-> <<params[1] + params[2]>>],
                   store |-> after]
        ELSE IF Len(params) # 0
             THEN [result |-> [kind |-> "WasmTrap"], store |-> after]
             ELSE [result |-> [kind |-> "Ok", values |-> <<after.counter + 1>>],
                   store |-> [after EXCEPT !.counter = @ + 1]]

\* what a call of invoke did: its result, whether it instantiated the module
\* and called the function, and the store it dropped
Invoked(result, instantiated, called, store) ==
    [result |-> result, instantiated |-> instantiated, called |-> called,
     store |-> store]

invoke_from_bytes(config, bytes, function, params, fuel, memory_limit, table_elements_limit) ==
    LET module == Module_new(bytes)
        fuel_budget == IF fuel # NoValue THEN fuel ELSE config.default_fuel
        store == IF fuel_budget # NoValue THEN add_fuel(Store_new, fuel_budget)
                 ELSE Store_new
        memory == IF memory_limit # NoValue THEN memory_limit
                  ELSE config.max_memory_bytes
        table == IF table_elements_limit # NoValue THEN table_elements_limit
                 ELSE config.max_table_elements
        limited == [store EXCEPT !.memory_limit = memory,
                                 !.table_limit = table]
    IN IF module.kind # "Ok" THEN Invoked(module, FALSE, FALSE, Store_new)
       ELSE IF memory = 0 \/ table = 0
       THEN Invoked([kind |-> "InvalidOperation", at |-> "limits"],
                    FALSE, FALSE, store)
       ELSE IF Instance_new(limited, module.module).kind # "Ok"
       THEN Invoked(Instance_new(limited, module.module), FALSE, FALSE, limited)
       ELSE IF function \notin FunctionsOf(module.module)
       THEN Invoked([kind |-> "InvalidOperation", at |-> "export"],
                    TRUE, FALSE, limited)
       ELSE LET called == call(limited, function, params) IN
            Invoked(called.result, TRUE, TRUE, called.store)

\* WasmModuleSource
Path(path) == [kind |-> "Path", path |-> path, bytes |-> <<>>]

ModuleBytes(bytes) == [kind |-> "Bytes", path |-> PathOf(FALSE, <<>>), bytes |-> bytes]

\* SandboxWasm::invoke
invoke(config, d, invocation) ==
    IF invocation.module.kind = "Path"
    THEN LET resolved == resolve(config.root, invocation.module.path) IN
         IF resolved.kind # "Ok"
         THEN Invoked(resolved, FALSE, FALSE, Store_new)
         ELSE IF ~IsFile(d, resolved.path)
         THEN Invoked(IoError("NotFound"), FALSE, FALSE, Store_new)
         ELSE invoke_from_bytes(config, d[resolved.path].data,
                                invocation.function, invocation.params,
                                invocation.fuel, invocation.memory_limit,
                                invocation.table_elements_limit)
    ELSE invoke_from_bytes(config, invocation.module.bytes,
                           invocation.function, invocation.params,
                           invocation.fuel, invocation.memory_limit,
                           invocation.table_elements_limit)

\* a call of invoke on the sandbox of a configuration
WasmInvoke(config, invocation) ==
    LET done == invoke(config, disk, invocation) IN
    /\ ret' = [op |-> "invoke", config |-> config, invocation |-> invocation,
               result |-> done.result, instantiated |-> done.instantiated,
               called |-> done.called, store |-> done.store,
               n |-> IF ret.op # "invoke" THEN 1
                     ELSE IF ret.n < MaxInvokes THEN ret.n + 1 ELSE ret.n]
    /\ UNCHANGED <<dispatcherVars, sandboxVars>>

\* WasmConfig::new rejects a zero memory or table limit
WasmConfigs ==
    [root : {WasmRoot}, max_memory_bytes : {2}, max_table_elements : {1},
     default_fuel : {NoValue, 2}]

WasmSources ==
    {ModuleBytes(<<1>>), ModuleBytes(<<2>>), ModuleBytes(<<9>>),
     Path(PathOf(FALSE, <<"add.wasm">>)), Path(PathOf(FALSE, <<"..", "add.wasm">>))}

WasmInvocations ==
    [module : WasmSources, function : {"add", "bump"},
     params : {<<>>, <<5, 7>>}, fuel : {NoValue, 0, 1},
     memory_limit : {NoValue, 0, 1, 3},
     table_elements_limit : {NoValue, 0, 2}]

\* the root of the wasm sandbox, holding the module add.wasm
WasmDisk == (WasmRoot :> Dir) @@ (Append(WasmRoot, "add.wasm") :> File(<<1>>))

WasmInit ==
    /\ DispatcherInit
    /\ disk = WasmDisk
    /\ writes = 0
    /\ RunnerInit
    /\ MicroInit

WasmNext ==
    \E config \in WasmConfigs, invocation \in WasmInvocations :
        WasmInvoke(config, invocation)

WasmSpec == WasmInit /\ [][WasmNext]_vars

\* start, execute and stop calls in every interleaving, on a root that
\* nothing but the calls touches
LifecycleNext ==
    \/ \E name \in StartImages, init_script \in InitScripts :
           StartCall(name, init_script)
    \/ StartFinish
    \/ \E vm_id \in VmIds, timeout \in MicroRequestTimeouts :
           ExecuteCall(vm_id, <<97>>, timeout)
    \/ RunCodeBegin
    \/ RunCodeWait
    \/ RunCodeFinish
    \/ RunCodeTimeout
    \/ OrphanReap
    \/ \E vm_id \in VmIds : StopCall(vm_id)
    \/ StopRemove
    \/ StopRmdir
    \/ VmEnvironment

LifecycleSpec == Init /\ [][LifecycleNext]_vars

\* ------------------------------------------------------------------ claims
Range(s) == {s[i] : i \in 1..Len(s)}

\* the snapshot of the live state of a task
Live(id) == IF id \in DOMAIN states THEN {snapshot(states[id])} ELSE {}

\* the history entries of a task
Entries(id) == {snap \in Range(history) : snap.id = id}

\* what a task's worker appended to history, evicted since or not
Appended(id) == {snap \in Range(log) : snap.id = id}

\* the snapshots in the value just returned to a caller
ReturnedSnapshots ==
    IF ret.op \in {"history", "agent.history"} THEN Range(ret.result)
    ELSE IF ret.op \in {"dispatch", "status", "cancel"}
            /\ ret.result.kind \in {"Ok", "Some"}
    THEN {ret.result.status}
    ELSE {}

Returned(id) == {snap \in ReturnedSnapshots : snap.id = id}

\* every snapshot of a task that exists in this state
Observable(id) == Live(id) \cup Entries(id) \cup Appended(id) \cup Returned(id)

C2_TerminalIsFinal ==
    [][\A id \in Ids :
          (\E snap \in Observable(id) : is_terminal(snap.status)) =>
          (\A snap \in Observable(id)' : is_terminal(snap.status))]_vars

\* C2 witness: status returns a Cancelled snapshot of a task whose worker has
\* not entered execute yet.
C2_Witness ==
    /\ ret.op = "status"
    /\ ret.result.kind = "Some"
    /\ is_terminal(ret.result.status.status)
    /\ workers[ret.id].pc = "spawned"

\* C3: every snapshot in history is terminal and carries started_at and
\* finished_at with created_at <= started_at <= finished_at.
C3_HistoryTimestamps ==
    \A snap \in Range(history) :
        /\ is_terminal(snap.status)
        /\ snap.started_at # NoTime
        /\ snap.finished_at # NoTime
        /\ snap.created_at <= snap.started_at
        /\ snap.started_at <= snap.finished_at

\* the value just returned by history(limit), directly or through the RPC
HistoryReturned == ret.op \in {"history", "agent.history"}

C5_SubmissionPending ==
    (ret.op = "dispatch" /\ ret.result.kind = "Ok") =>
        /\ ret.result.status.status = "Pending"
        /\ ret.result.status.started_at = NoTime
        /\ ret.result.status.finished_at = NoTime

\* a task that has run its course
Settled(id) ==
    /\ id \notin tasks
    /\ is_terminal(states[id].status)
    /\ Appended(id) # {}
    /\ id \in forced => \A snap \in Appended(id) : snap.status = "Cancelled"

\* C6: under fair scheduling of the workers, every task accepted by dispatch
\* eventually has a terminal status, has left the active registry and has
\* been appended to history, and a task that cancel forced to Cancelled is
\* appended with status Cancelled.  A settled task stays settled, so with
\* the accepted tasks at any time all settled again and again, each of them
\* eventually is.
C6_EveryTaskReachesHistory == []<>(\A id \in DOMAIN workers : Settled(id))

\* C6 witness: a task that cancel forced before the reply of the LLM has been
\* appended to history.
C6_Witness == \E id \in forced : Settled(id) /\ Entries(id) # {}

\* C7 as stated: whenever cancel(id) returns for a task whose status is
\* terminal, it returns the task's terminal snapshot, in the active registry
\* or after the hand-over to history.
C7_CancelReturnsSnapshot ==
    (ret.op = "cancel" /\ ret.id \in DOMAIN states
        /\ is_terminal(states[ret.id].status)) =>
        /\ ret.result.kind = "Ok"
        /\ ret.result.status = snapshot(states[ret.id])

\* a step of a cancel call
CancelStep(c) == cancels'[c] # cancels[c] \/ (ret'.op = "cancel" /\ ret' # ret)

\* C7 amended: a task state that is terminal never changes again; a step of
\* cancel changes neither the registry nor history; and what cancel returns
\* for a task that has been created is the snapshot of its terminal state
\* if the call found the task in the active registry, and AgentTaskNotFound
\* if the worker had removed it.
C7_CancelOnTerminal ==
    [][/\ \A id \in DOMAIN states :
              is_terminal(states[id].status) => states'[id] = states[id]
       /\ \A c \in Callers :
              CancelStep(c) => tasks' = tasks /\ history' = history
       /\ (ret'.op = "cancel" /\ ret'.id \in DOMAIN states') =>
              IF ret'.result.kind = "Ok"
              THEN /\ is_terminal(ret'.result.status.status)
                   /\ ret'.result.status = snapshot(states'[ret'.id])
              ELSE /\ ret'.result.kind = "AgentTaskNotFound"
                   /\ ret'.id \notin tasks']_vars

\* C7 witness: cancel returns the Completed snapshot of a task that had
\* completed before the call took the state lock.
C7_Witness ==
    /\ ret.op = "cancel"
    /\ ret.result.kind = "Ok"
    /\ ret.result.status.status = "Completed"

\* C8: history(n) returns the last min(n, |history|) snapshots appended,
\* the newest first.
C8_HistoryNewestFirst ==
    HistoryReturned =>
        /\ Len(ret.result) = Min(ret.limit, Len(history))
        /\ \A i \in 1..Len(ret.result) :
               ret.result[i] = log[Len(log) + 1 - i]

\* C8 witness: history(2) answers with two snapshots after three appends.
C8_Witness ==
    /\ ret.op = "history"
    /\ Len(ret.result) = 2
    /\ Len(log) = 3

\* the last n elements of a sequence
LastN(s, n) == IF Len(s) <= n THEN s ELSE SubSeq(s, Len(s) - n + 1, Len(s))

\* C9: history never exceeds history_capacity and always equals the most
\* recently appended snapshots, in the order of the appends.
C9_BoundedFifo ==
    /\ Len(history) <= history_capacity
    /\ history = LastN(log, history_capacity)

\* C9 witness: three workers have appended, the second task ahead of the
\* first, and the oldest entry has been evicted.
C9_Witness ==
    /\ Len(log) = 3
    /\ log[1].id = 2
    /\ Len(history) = history_capacity

\* what C10 says dispatch answers to a request
Answer(request) ==
    IF Trim(request.objective) = <<>> THEN {"InvalidOperation"}
    ELSE IF request.agent \notin RegisteredAgents THEN {"AgentUnavailable"}
    ELSE IF total_bytes(request.context) > ContextLimit THEN {"ContextTooLarge"}
    ELSE IF total_bytes(request.context) >= 0 THEN {"Ok"}
    ELSE {"InvalidOperation"}

Rejected(r) == r.op = "dispatch" /\ r.result.kind # "Ok"

\* C10: dispatch rejects an objective that is empty after trimming with
\* InvalidOperation, then an unregistered agent with AgentUnavailable, then a
\* context over max_context_bytes with ContextTooLarge{provided, limit}, and
\* accepts a context of exactly max_context_bytes; a rejected dispatch
\* leaves the registry, the workers and history as they were.
C10_DispatchValidation ==
    [][/\ ret'.op = "dispatch" =>
              /\ ret'.result.kind \in Answer(ret'.request)
              /\ ret'.result.kind = "ContextTooLarge" =>
                     /\ ret'.result.provided =
                            total_bytes(ret'.request.context)
                     /\ ret'.result.limit = ContextLimit
       /\ (Rejected(ret') /\ ret' # ret) =>
              UNCHANGED <<tasks, states, tokens, workers, inflight, history,
                          nextId>>]_vars

\* C10 witness: a context one byte over the limit is rejected while a task
\* is in the active registry.
C10_Witness ==
    /\ Rejected(ret)
    /\ ret.result.kind = "ContextTooLarge"
    /\ ret.result.provided = ContextLimit + 1
    /\ tasks # {}

\* the status changes of the tasks in a step
StatusChanges ==
    {<<states[id].status, states'[id].status>> :
        id \in {i \in DOMAIN states : states'[i].status # states[i].status}}

\* the four transitions of the status domain
FourTransitions ==
    {<<"Pending", "Running">>, <<"Running", "Completed">>,
     <<"Running", "Failed">>, <<"Running", "Cancelled">>}

\* C11 as stated: a task changes status only by Pending -> Running,
\* Running -> Completed, Running -> Failed or Running -> Cancelled, so a
\* terminal task was Running before.
C11_FourTransitions == [][StatusChanges \subseteq FourTransitions]_vars

\* C11 amended: a task changes status only by the four transitions above or
\* by Pending -> Cancelled, which is what cancel does to a task whose worker
\* has not run its first block; a task becomes Completed or Failed only from
\* Running, and a task is created Pending.
C11_Transitions ==
    [][/\ StatusChanges \subseteq
              FourTransitions \cup {<<"Pending", "Cancelled">>}
       /\ \A id \in DOMAIN states' \ DOMAIN states :
              states'[id].status = "Pending"]_vars

\* C11 witness: a task that cancel took from Pending to Cancelled has been
\* finalized by its worker without ever being Running.
C11_Witness ==
    \E id \in forced :
        /\ workers[id].pc = "remove"
        /\ states[id].status = "Cancelled"
        /\ states[id].started_at = NoTime

\* whether the text of a path has a ".." segment or starts with "/"
Escaping(path) == path.rooted \/ \E i \in 1..Len(path.segs) : path.segs[i] = ".."

TraversalErrors ==
    {"PathTraversal", "OutsideRoot", "TraversalAttempt", "AbsolutePath"}

\* a step that is a call of write_file
WriteStep == ret'.op = "write" /\ writes' = writes + 1

\* where write_file and read_file put an accepted path
Target(path) == WorkspaceRoot \o sanitize_relative_path(path).path

\* C12: a path with a ".." segment anywhere, or with a leading "/", is
\* rejected with a traversal or outside-root error by path resolution, by
\* write and by read; every accepted path resolves to a location under the
\* workspace root, and nothing on the disk lies outside the root.
C12_ParentSegmentsRejected ==
    /\ (ret.op \in {"write", "read", "resolve"} /\ Escaping(ret.path)) =>
           ret.result.kind \in TraversalErrors
    /\ (ret.op = "resolve" /\ ret.result.kind = "Ok") =>
           StartsWith(Physical(ret.result.path), WorkspaceRoot)
    /\ \A loc \in DOMAIN disk : StartsWith(Physical(loc), WorkspaceRoot)

\* C13: a write of more than max_file_size bytes fails with FileTooLarge and
\* leaves the disk as it was, the target, its parent directories and the
\* workspace root included; a buffer of at most max_file_size bytes is never
\* rejected for its size, and is written whenever its path is accepted and
\* names no directory.
C13_OversizedWriteRejected ==
    [][WriteStep =>
          IF Len(ret'.data) > MaxFileSize
          THEN /\ ret'.result = [kind |-> "FileTooLarge",
                                 size |-> Len(ret'.data), limit |-> MaxFileSize]
               /\ disk' = disk
          ELSE /\ ret'.result.kind # "FileTooLarge"
               /\ (/\ sanitize_relative_path(ret'.path).kind = "Ok"
                   /\ ~IsDir(disk, Target(ret'.path))
                   /\ Target(ret'.path) # WorkspaceRoot
                   /\ \A pre \in Prefixes(Target(ret'.path)) \ {Target(ret'.path)} :
                          ~IsFile(disk, pre)) =>
                      /\ ret'.result.kind = "Ok"
                      /\ disk'[Target(ret'.path)] = File(ret'.data)]_vars

\* C13 witness: a buffer one byte over the limit has been rejected for a
\* path that holds an accepted buffer of exactly max_file_size bytes.
C13_Witness ==
    /\ ret.op = "write"
    /\ ret.result.kind = "FileTooLarge"
    /\ ret.result.size = MaxFileSize + 1
    /\ sanitize_relative_path(ret.path).kind = "Ok"
    /\ IsFile(disk, Target(ret.path))
    /\ Len(disk[Target(ret.path)].data) = MaxFileSize

\* C14: a read that follows an accepted write to the same path returns
\* exactly the bytes written, whatever bytes they are, and an accepted write
\* leaves the file holding exactly its buffer, also over earlier content.
C14_ReadReturnsWritten ==
    [][/\ (ret.op = "write" /\ ret.result.kind = "Ok"
              /\ ret'.op = "read" /\ ret'.path = ret.path) =>
              ret'.result = [kind |-> "Ok", contents |-> ret.data]
       /\ (WriteStep /\ ret'.result.kind = "Ok") =>
              disk'[Target(ret'.path)] = File(ret'.data)]_vars

\* a step that is the entry of a call of execute_with_config
CallStep == runs' = runs + 1

\* the command of the call that a CallStep starts
Called == IF run'.pc = "wait" THEN run'.call ELSE ret'.call

\* C15: a call whose program is not exactly one of the allowed commands
\* returns CommandNotAllowed naming the program, spawns no process and has
\* no other effect: the disk, the child, the pipes and the readers are as
\* before, whatever the working directory and the timeout of the request.
C15_DisallowedNotSpawned ==
    [][(CallStep /\ Called.command \notin AllowedCommands) =>
          /\ ret'.op = "execute"
          /\ ret'.result = [kind |-> "CommandNotAllowed",
                            command |-> Called.command]
          /\ UNCHANGED <<disk, run, child, descendant, pipes, readers>>]_vars

\* C15 witness: a program that only starts like an allowed command has been
\* rejected, with a working directory outside the root in the request and
\* with no workspace directory created.
C15_Witness ==
    /\ ret.op = "execute"
    /\ ret.result.kind = "CommandNotAllowed"
    /\ ret.call.command = "sh -c"
    /\ ret.call.config.working_directory = PathOf(FALSE, <<"..", "a">>)
    /\ disk = NoDisk

\* a call that returned after its child was spawned
Ran == ret.op = "execute" /\ "produced" \in DOMAIN ret

\* C16: a run output carries at most max_output_bytes of stdout and of
\* stderr; when a stream produced more, no run output is returned, and the
\* error returned for the output names a stream that produced more, with the
\* limit.
C16_OutputBounded ==
    Ran =>
        /\ ret.result.kind = "Ok" =>
               /\ Len(ret.result.stdout) <= MaxOutput
               /\ Len(ret.result.stderr) <= MaxOutput
        /\ (\E s \in Streams : ret.produced[s] > MaxOutput) =>
               /\ ret.result.kind \in {"OutputLimit", "Timeout"}
               /\ ret.result.kind = "OutputLimit" =>
                      /\ ret.produced[ret.result.stream] > MaxOutput
                      /\ ret.result.limit = MaxOutput

\* the deadline of the call in progress has fired
DeadlineFired == run.pc \in {"timeout_stdout", "timeout_stderr"}

\* the timeout a request resolves to
Resolved(config) ==
    IF config.timeout = NoTimeout THEN DefaultTimeout ELSE config.timeout

\* C17: once the deadline has fired the child has been killed and reaped;
\* the call returns nothing but Timeout(d) with d the resolved timeout; and
\* the call does return: it is never left waiting for something that no
\* step of the call, of its readers or of a process that ends will bring.
C17_TimeoutReturns ==
    /\ DeadlineFired => child.state = "reaped"
    /\ (Ran /\ ret.result.kind = "Timeout") =>
           /\ ret.result.timeout = Resolved(ret.call.config)
           /\ ret.child = "reaped"
    /\ DeadlineFired => ENABLED (RunProgress \/ DescendantExit)

\* C19: a run output is returned only for a child that ended with an exit
\* code; for a child that a signal ended, the call returns
\* TerminatedBySignal.
C19_SignalIsError ==
    Ran =>
        /\ ret.result.kind = "Ok" => ret.result.status = "Exit"
        /\ (ret.status = "Signal"
               /\ ret.result.kind \notin {"OutputLimit", "Timeout"}) =>
               ret.result.kind = "TerminatedBySignal"

\* The runner of run.rs holds no maximum; a configuration may set one no
\* smaller than the default timeout.
max_timeout == DefaultTimeout

\* C20: the timeout of a call is the default when the request has none; a
\* child is spawned only for a timeout that is positive and at most
\* max_timeout.
C20_TimeoutValidated ==
    run.pc # "idle" =>
        /\ run.timeout = Resolved(run.call.config)
        /\ run.timeout >= 1
        /\ run.timeout <= max_timeout

\* C18: when run_code returns Timeout(d), d is the timeout it was called
\* with and the interpreter child has been killed and reaped.
C18_MicroTimeoutReaped ==
    (ret.op = "run_code" /\ ret.result.kind = "Timeout") =>
        /\ ret.result.timeout = ret.timeout
        /\ ret.child = "reaped"

\* the last value a request supplies for a key
Supplied(pairs, key) ==
    LET at == {i \in 1..Len(pairs) : pairs[i][1] = key} IN
    pairs[CHOOSE i \in at : \A j \in at : j <= i][2]

SuppliedKeys(pairs) == {pairs[i][1] : i \in 1..Len(pairs)}

Drawn == {VmId(n) : n \in 1..allocated}

\* an id whose instance is gone: drawn, in no call of start or stop that has
\* not returned, not registered and without a workdir
Gone(id) ==
    /\ id \in Drawn
    /\ ~(starter.pc # "idle" /\ starter.id = id)
    /\ ~(stopper.pc # "idle" /\ stopper.id = id)
    /\ id \notin DOMAIN instances
    /\ ~Exists(disk, Workdir(id))

\* C22: when stop(id) returns success the instance is gone, and it stays
\* gone: every later stop(id) and execute(id) returns MicroVmNotFound and
\* leaves no directory behind; stop succeeds when the workdir is missing.
C22_StopRemovesInstance ==
    /\ []((ret.op = "stop" /\ ret.result.kind # "MicroVmNotFound") =>
            /\ ret.missing => ret.result.kind = "Ok"
            /\ ret.result.kind = "Ok" => Gone(ret.id))
    /\ [][\A id \in VmIds : Gone(id) =>
            /\ Gone(id)'
            /\ (ret'.op \in {"stop", "execute"} /\ ret'.id = id) =>
                ret'.result.kind = "MicroVmNotFound"]_vars

\* a second stop of an instance that was started without a script
C22_Witness ==
    /\ ret.op = "stop"
    /\ ret.id = VmId(1)
    /\ ret.result.kind = "MicroVmNotFound"
    /\ Gone(VmId(1))
    /\ scripts = 0

\* the timeout of a request once resolved against the configuration
ResolvedTimeout(timeout) ==
    IF timeout = NoTimeout THEN default_timeout ELSE timeout

\* C23: execute on a registered instance resolves an absent timeout to
\* default_timeout, accepts a timeout up to and including max_timeout, and
\* rejects zero and anything above max_timeout with InvalidOperation,
\* writing no script and spawning no process.
C23_ExecuteTimeoutValidated ==
    [][\A id \in VmIds, timeout \in MicroRequestTimeouts :
        (ExecuteCall(id, <<97>>, timeout) /\ id \in DOMAIN instances) =>
            IF ResolvedTimeout(timeout) >= 1
               /\ ResolvedTimeout(timeout) <= micro_max_timeout
            THEN /\ micro'.pc = "ready"
                 /\ micro'.caller = "execute"
                 /\ micro'.timeout = ResolvedTimeout(timeout)
            ELSE /\ ret'.op = "execute"
                 /\ ret'.result.kind = "InvalidOperation"
                 /\ UNCHANGED <<disk, child, scripts, micro>>]_vars

C23_Witness ==
    /\ micro.pc = "running"
    /\ micro.caller = "execute"
    /\ micro.timeout = micro_max_timeout
    /\ IsFile(disk, ScriptPath(micro.workdir))

\* C24: start with an image name that is not configured returns
\* MicroImageNotConfigured(name), makes no workdir, draws no id and leaves
\* the registry as it was.
C24_UnknownImageRejected ==
    [][\A name \in StartImages, init_script \in InitScripts :
        (StartCall(name, init_script) /\ name \notin ImageNames) =>
            /\ ret'.op = "start"
            /\ ret'.result = [kind |-> "MicroImageNotConfigured",
                              name |-> name]
            /\ UNCHANGED <<disk, allocated, instances, starter, micro,
                           scripts>>]_vars

C24_Witness ==
    /\ ret.op = "start"
    /\ ret.result.kind = "MicroImageNotConfigured"
    /\ instances # NoInstances

\* a start call that got past the workdir has returned
StartReturned == ret.op = "start" /\ "script" \in DOMAIN ret

Blank(script) == \A i \in 1..Len(script) : script[i] \in {9, 10, 32}

\* the errors run_code returns
ScriptErrors == {"Io", "Timeout", "OutputTooLarge", "TerminatedBySignal"}

CleanStore ==
    [fuel |-> NoValue, memory_limit |-> NoValue, table_limit |-> NoValue,
     counter |-> 0]

\* what an invocation of the function of a module returns in a store of its
\* own with fuel for the call
OwnResult(invocation) ==
    IF invocation.function = "add"
    THEN IF Len(invocation.params) = 2
         THEN [kind |-> "Ok",
               values |-> <<invocation.params[1] + invocation.params[2]>>]
         ELSE [kind |-> "WasmTrap"]
    ELSE IF Len(invocation.params) = 0
         THEN [kind |-> "Ok", values |-> <<1>>]
         ELSE [kind |-> "WasmTrap"]

\* C26: an invocation starts from a store of its own and changes nothing
\* but what it returns: a function that is called returns what it returns in
\* a clean store, whatever was invoked before, and the store the call ends
\* with holds the fuel and limits of this call only.
C26_NoStateBetweenInvocations ==
    /\ []((ret.op = "invoke" /\ ret.called /\ ret.result.kind = "Ok") =>
            /\ ret.result = OwnResult(ret.invocation)
            /\ ret.store.counter <= 1)
    /\ [][ret'.op = "invoke" =>
            /\ UNCHANGED <<dispatcherVars, sandboxVars>>
            /\ (ret.op = "invoke" /\ ret'.config = ret.config
                /\ ret'.invocation = ret.invocation) =>
                    ret'.result = ret.result]_vars

\* the counter module is invoked a second time and counts from zero again
C26_Witness ==
    /\ ret.op = "invoke"
    /\ ret.n = 2
    /\ ret.invocation.function = "bump"
    /\ ret.result.kind = "Ok"
    /\ ret.result.values = <<1>>

\* the fuel, memory limit and table limit an invocation runs under
Effective(value, default) == IF value # NoValue THEN value ELSE default

\* C27: a limit of the invocation overrides that of the configuration, and
\* an invocation whose effective fuel, memory limit or table-element limit
\* is zero is rejected with InvalidOperation before the module is
\* instantiated or a function called.
C27_ZeroLimitRejected ==
    (ret.op = "invoke" /\ Module_new(ret.invocation.module.bytes).kind = "Ok") =>
        LET fuel == Effective(ret.invocation.fuel, ret.config.default_fuel)
            memory == Effective(ret.invocation.memory_limit,
                                ret.config.max_memory_bytes)
            table == Effective(ret.invocation.table_elements_limit,
                               ret.config.max_table_elements) IN
        /\ (fuel = 0 \/ memory = 0 \/ table = 0) =>
            /\ ret.result.kind = "InvalidOperation"
            /\ ~ret.instantiated
            /\ ~ret.called
        /\ ret.instantiated =>
            /\ ret.store.memory_limit = memory
            /\ ret.store.table_limit = table
            /\ fuel = NoValue => ret.store.fuel = NoValue

\* C28: from the return of its dispatch until its snapshot is evicted from
\* history, status(id) finds the task, in the active registry or in
\* history, however the call interleaves with the worker's hand-over.
C28_StatusFindsTask ==
    (ret.op = "status" /\ ret.id \in known
     /\ ~(Appended(ret.id) # {} /\ Entries(ret.id) = {})) =>
        ret.result.kind = "Some"

\* C29: once cancel has forced a task to Cancelled, nothing changes its
\* state again: the worker's finalization leaves status, started_at,
\* finished_at, outcome and error alone whatever execute returned, and the
\* snapshot appended to history is the one cancel returned.
C29_ForcedStateFrozen ==
    /\ [](\A id \in forced : Appended(id) \subseteq Live(id))
    /\ []((ret.op = "cancel" /\ ret.result.kind = "Ok" /\ ret.id \in forced) =>
            Live(ret.id) = {ret.result.status})
    /\ [][\A id \in forced : states'[id] = states[id]]_vars

\* a task cancelled while Running, whose worker finalized at a later time
\* and handed it over
C29_Witness ==
    \E id \in forced :
        /\ Appended(id) # {}
        /\ states[id].started_at # NoTime
        /\ states[id].finished_at < now


\* C30: execute tests the cancel signal before it sends the HTTP request
\* and again after the response. With the signal set before execute starts
\* no request is sent and execute returns Cancelled; with the signal set
\* while the request is in flight execute returns Cancelled and never an
\* outcome, whatever came back from the endpoint.
C30_CancelCheckedAroundRequest ==
    [][\A id \in DOMAIN workers :
        /\ (workers[id].pc = "execute" /\ tokens[id]
            /\ workers'[id].pc # "execute") =>
                /\ workers'[id].pc = "finalize"
                /\ workers'[id].outcome = "ErrCancelled"
        /\ (workers[id].pc = "request" /\ tokens[id]
            /\ workers'[id].pc # "request") =>
                /\ workers'[id].pc = "finalize"
                /\ workers'[id].outcome = "ErrCancelled"]_vars


\* C31: no task id is in the active registry and in history at the same
\* time, and no task id is in history more than once.
C31_RegistryHistoryDisjoint ==
    /\ \A i \in 1..Len(history) : history[i].id \notin tasks
    /\ \A i, j \in 1..Len(history) : history[i].id = history[j].id => i = j

\* two tasks handed over to history while the worker of a third is about
\* to take it out of the registry
C31_Witness ==
    /\ Len(history) = 2
    /\ \E id \in tasks : workers[id].pc = "remove"


\* every snapshot there is of a task: of its live state, in history, ever
\* appended to history, or in the value just returned to a caller
Snapshots ==
    UNION {Live(id) : id \in DOMAIN states}
        \cup Range(history) \cup Range(log) \cup ReturnedSnapshots

\* C32: in every snapshot of every task an outcome is present exactly when
\* the status is Completed and an error message exactly when it is Failed;
\* a Cancelled task carries no outcome, whatever the agent returned.
C32_OutcomeMatchesStatus ==
    \A snap \in Snapshots :
        /\ snap.outcome = "Some" <=> snap.status = "Completed"
        /\ snap.error = "Some" <=> snap.status = "Failed"

\* a task whose agent returned a successful result and which cancel forced
\* to Cancelled before the worker finalized it
C32_Witness ==
    \E id \in forced :
        /\ tokens[id]
        /\ workers[id].pc = "remove"
        /\ workers[id].outcome = "Ok"
        /\ workers[id].snapshot.status = "Cancelled"


\* an execute of the instance that has taken its snapshot of the image and
\* workdir and has not returned
InFlight(id) ==
    micro.pc # "idle" /\ micro.caller = "execute" /\ micro.id = id

\* C33: a stop that runs while an execute of the same instance is in flight
\* removes the instance and its workdir; once stop has returned success no
\* step of that execute brings the workdir or a script file back; and the
\* execute in flight never keeps stop from its next step.
C33_StopDuringExecute ==
    /\ []((ret.op = "stop" /\ ret.result.kind # "MicroVmNotFound"
           /\ InFlight(ret.id)) =>
            /\ ret.result.kind = "Ok"
            /\ Gone(ret.id))
    /\ [][\A id \in VmIds : (Gone(id) /\ InFlight(id)) =>
            /\ Gone(id)'
            /\ \A l \in DOMAIN disk' : ~StartsWith(l, Workdir(id))]_vars
    /\ [](\A id \in VmIds :
            (InFlight(id) /\ id \in DOMAIN instances /\ stopper.pc = "idle") =>
                ENABLED StopCall(id))
    /\ []((stopper.pc = "removing" /\ InFlight(stopper.id)) => ENABLED StopRemove)


\* C34: when run_code returns, with an output or with any error, the script
\* file it wrote into the workdir of the instance does not exist.
C34_ScriptRemoved ==
    ret.op = "run_code" => ~Exists(disk, ScriptPath(Workdir(ret.id)))


\* the instance directories under the micro root
InstanceDirs ==
    {l \in DOMAIN disk : Len(l) = 2 /\ l[1] = "micro" /\ IsDir(disk, l)}

\* C35: whenever no start and no stop is in progress, the instance
\* directories under the micro root are exactly the workdirs of the
\* registered instances.
C35_DirectoriesMatchRegistry ==
    (starter.pc = "idle" /\ stopper.pc = "idle") =>
        InstanceDirs = {instances[id].workdir : id \in DOMAIN instances}


\* a call of run_code that spawned its interpreter has returned
ScriptRan == ret.op = "run_code" /\ ret.result.kind # "Io"

\* C36: a script run reports Timeout when its wait ended by the deadline,
\* whatever the child had printed by then; otherwise OutputTooLarge for
\* stdout when stdout is over max_output_bytes; otherwise OutputTooLarge for
\* stderr when stderr is; otherwise TerminatedBySignal when the child has no
\* exit code; otherwise the output, with both streams as captured and within
\* max_output_bytes and with the exit code, zero or not.
C36_ResultPrecedence ==
    ScriptRan =>
        LET stdout == pipes["stdout"].pending
            stderr == pipes["stderr"].pending IN
        IF ret.result.kind = "Timeout"
        THEN /\ ret.result.timeout = ret.timeout
             /\ elapsed >= ret.timeout
        ELSE IF Len(stdout) > MaxOutput
        THEN ret.result = [kind |-> "OutputTooLarge", stream |-> "stdout",
                           limit |-> MaxOutput]
        ELSE IF Len(stderr) > MaxOutput
        THEN ret.result = [kind |-> "OutputTooLarge", stream |-> "stderr",
                           limit |-> MaxOutput]
        ELSE IF child.status = "Signal"
        THEN ret.result = [kind |-> "TerminatedBySignal"]
        ELSE /\ ret.result.kind = "Ok"
             /\ ret.result.stdout = stdout
             /\ ret.result.stderr = stderr
             /\ ret.result.exit_code = 0 <=> child.status = "Exit"

\* the child printed too much on both streams and was ended by a signal:
\* the run reports stdout
C36_Witness ==
    /\ ScriptRan
    /\ ret.result.kind = "OutputTooLarge"
    /\ ret.result.stream = "stdout"
    /\ Len(pipes["stderr"].pending) > MaxOutput
    /\ child.status = "Signal"


\* the normal segments of a path: those that name something
NormalSegments(path) ==
    {i \in 1..Len(path.segs) : path.segs[i] \notin {".", ".."}}

\* a resolution that accepted the path kept a normal segment of it and ends
\* strictly below the workspace root
BelowRoot(path, result) ==
    result.kind = "Ok" =>
        /\ NormalSegments(path) # {}
        /\ StartsWith(result.path, WorkspaceRoot)
        /\ Len(result.path) > Len(WorkspaceRoot)

\* C37: every path the resolver accepts has a normal segment: an empty path
\* and a path of nothing but current-directory segments are rejected, and a
\* successful resolution is a location strictly below the workspace root,
\* for path::resolve and for the resolution of the filesystem calls.
C37_AcceptedBelowRoot ==
    /\ ret.op = "resolve" => BelowRoot(ret.path, ret.result)
    /\ ret.op \in {"write", "read"} =>
           BelowRoot(ret.path, resolve_workspace_path(disk, ret.path).result)


\* C38: the memory-size limit an invocation puts on its store is at most the
\* max_memory_bytes of the configuration and the table-element limit at most
\* its max_table_elements, whatever limits the invocation asks for.
C38_LimitsWithinConfig ==
    (ret.op = "invoke" /\ ret.instantiated) =>
        /\ ret.store.memory_limit <= ret.config.max_memory_bytes
        /\ ret.store.table_limit <= ret.config.max_table_elements


\* the return of a start whose init script has been run
InitScriptReturn == starter.pc = "returned" /\ starter'.pc = "idle"

\* C39: start fails on an error of the script run and on nothing else: an
\* init script that ran to its end, with exit code zero or not, leaves the
\* workdir in place and has the instance registered and returned, the same
\* for every exit code.
C39_ExitCodeNotFailure ==
    [][InitScriptReturn =>
        IF starter.result.kind = "Ok"
        THEN /\ ret'.result = [kind |-> "Ok"]
             /\ ret'.id = starter.id
             /\ ret'.image = starter.image.name
             /\ starter.id \in DOMAIN instances'
             /\ instances'[starter.id] = [image |-> starter.image.name,
                                          workdir |-> starter.workdir]
             /\ disk' = disk
             /\ IsDir(disk', starter.workdir)
        ELSE /\ starter.result.kind \in ScriptErrors
             /\ ret'.result = starter.result
             /\ starter.id \notin DOMAIN instances']_vars

\* a start has returned its instance after an init script that exited with
\* a non-zero code
C39_Witness ==
    /\ StartReturned
    /\ ret.ran = 1
    /\ ret.result.kind = "Ok"
    /\ child.status = "Fail"
    /\ ret.id \in DOMAIN instances
====
